---- MODULE Spec2Model ----
(***************************************************************************)
(* Model of the filename-driven aggregation pipeline of the TMSSR quality  *)
(* check dashboards: src/streamlit_app.py and the early/late comparison    *)
(* page under src/pages.                                                   *)
(*                                                                         *)
(* A Python str is a sequence of characters; a character is a one-element  *)
(* TLA+ string.  The three Hangul syllables of the AM/PM markers are       *)
(* written "{o}", "{jeon}" and "{hu}": the morning marker is the sequence  *)
(* <<"{o}", "{jeon}">>, the afternoon marker is <<"{o}", "{hu}">>.         *)
(***************************************************************************)
EXTENDS Integers, Sequences, FiniteSets, TLC

VARIABLES
    path,       \* parser machine: the str handed to the filename parser
    src,        \* parser machine: how the path was written (fields, gaps, edit)
    result,     \* parser machine: what the parser returned or raised
    pc,         \* parser machine: position
    lfile,      \* loader: how the file being read answers each read_csv attempt
    tried,      \* loader: the read_csv attempts made so far, in order
    lstate,     \* loader: "idle", "trying", "returned" or "raised"
    lresult,    \* loader: the attempt whose table was returned, or the error raised
    cell,       \* normalizer machine: a raw TMSSR cell
    norm,       \* normalizer machine: what the category normalization made of it
    npc,        \* normalizer machine: position
    folder,     \* aggregate_folder: the directory, file name -> file (reads, table)
    csv_files,  \* aggregate_folder: the sorted list of paths
    idx,        \* aggregate_folder: the index in csv_files of fpath (1-based)
    cur,        \* aggregate_folder: user, ts of the file in hand
    rows,       \* aggregate_folder: the rows appended so far
    out,        \* aggregate_folder: the returned frame, as a list of rows
    apc,        \* aggregate_folder: position
    dkind,      \* dashboard script: what the typed path is on disk
    ui,         \* dashboard script: position, and what the page shows
    dirs,       \* comparison page: the early and the late directory on disk
    page,       \* comparison page: the module-level names assigned so far
    touched,    \* comparison page: the files parsed and the files loaded so far
    gpc         \* comparison page: position of the script

pvars == <<path, src, result, pc>>
lvars == <<lfile, tried, lstate, lresult>>
nvars == <<cell, norm, npc>>
avars == <<folder, csv_files, idx, cur, rows, out, apc>>
dvars == <<dkind, ui>>
gvars == <<dirs, page, touched, gpc>>
vars == <<pvars, lvars, nvars, avars, dvars, gvars>>

---------------------------------------------------------------------------
(* Characters and the str methods the code uses                            *)

KO_O == "{o}"
KO_JEON == "{jeon}"
KO_HU == "{hu}"
AM == <<KO_O, KO_JEON>>
PM == <<KO_O, KO_HU>>

DigitSeq == <<"0", "1", "2", "3", "4", "5", "6", "7", "8", "9">>
Digits == {DigitSeq[i] : i \in 1..10}
DigitVal(c) == (CHOOSE i \in 1..10 : DigitSeq[i] = c) - 1

UpperSeq == <<"A", "B", "C", "D", "E", "F", "G", "H", "I", "J", "K", "L", "M",
              "N", "O", "P", "Q", "R", "S", "T", "U", "V", "W", "X", "Y", "Z">>
LowerSeq == <<"a", "b", "c", "d", "e", "f", "g", "h", "i", "j", "k", "l", "m",
              "n", "o", "p", "q", "r", "s", "t", "u", "v", "w", "x", "y", "z">>
UpperChars == {UpperSeq[i] : i \in 1..26}

\* str.isspace for the characters of the model: space and tab
IsSpace(c) == c \in {" ", "\t"}

\* str.lower, one character: only cased letters change
LowerChar(c) ==
    IF c \in UpperChars THEN LowerSeq[CHOOSE i \in 1..26 : UpperSeq[i] = c] ELSE c

\* str.lower
lower(s) == [i \in 1..Len(s) |-> LowerChar(s[i])]

\* str.endswith
endswith(s, suf) ==
    /\ Len(s) >= Len(suf)
    /\ SubSeq(s, Len(s) - Len(suf) + 1, Len(s)) = suf

\* the positions at which sub occurs in s
Occurrences(s, sub) ==
    {i \in 1..(Len(s) - Len(sub) + 1) : SubSeq(s, i, i + Len(sub) - 1) = sub}

\* str.strip: leading and trailing whitespace removed
strip(s) ==
    LET keep == {i \in 1..Len(s) : ~IsSpace(s[i])}
    IN  IF keep = {} THEN <<>>
        ELSE SubSeq(s, CHOOSE i \in keep : \A j \in keep : i <= j,
                       CHOOSE i \in keep : \A j \in keep : i >= j)

\* os.path.basename: what follows the last "/"
basename(p) ==
    LET slashes == {i \in 1..Len(p) : p[i] = "/"}
    IN  IF slashes = {} THEN p
        ELSE SubSeq(p, (CHOOSE i \in slashes : \A j \in slashes : i >= j) + 1, Len(p))

CSV_EXT == <<".", "c", "s", "v">>

\* faulty variant of RsplitCsvHead: split(".csv", 1)[0], cutting at the first ".csv"
RsplitCsvHead_First(base) ==
    LET occ == Occurrences(base, CSV_EXT)
    IN  IF occ = {} THEN base
        ELSE SubSeq(base, 1, (CHOOSE i \in occ : \A j \in occ : i <= j) - 1)

\* faulty variant of RsplitCsvHead: the last ".csv" is looked for in any letter case
RsplitCsvHead_AnyCase(base) ==
    LET occ == Occurrences(lower(base), CSV_EXT)
    IN  IF occ = {} THEN base
        ELSE SubSeq(base, 1, (CHOOSE i \in occ : \A j \in occ : i >= j) - 1)

\* base.rsplit(".csv", 1)[0]: what precedes the last ".csv" (case-sensitive),
\* the whole str when ".csv" does not occur
RsplitCsvHead(base) ==
    LET occ == Occurrences(base, CSV_EXT)
    IN  IF occ = {} THEN base
        ELSE SubSeq(base, 1, (CHOOSE i \in occ : \A j \in occ : i >= j) - 1)

\* s.split("_", 1): one element when s holds no "_", else the parts around the first
SplitUnderscore(s) ==
    LET us == {i \in 1..Len(s) : s[i] = "_"}
    IN  IF us = {} THEN <<s>>
        ELSE LET k == CHOOSE i \in us : \A j \in us : i <= j
             IN  <<SubSeq(s, 1, k - 1), SubSeq(s, k + 1, Len(s))>>

\* int() of a str of decimal digits
RECURSIVE ToInt(_)
ToInt(ds) ==
    IF ds = <<>> THEN 0
    ELSE 10 * ToInt(SubSeq(ds, 1, Len(ds) - 1)) + DigitVal(ds[Len(ds)])

---------------------------------------------------------------------------
(* re.match of the timestamp pattern                                       *)
(*   ^(\d{4})\.\s*(\d{1,2})\.\s*(\d{1,2})\.\s*(AM|PM)\s*(\d{1,2})-(\d{2})-(\d{2})$ *)
(* Every \d{1,2} is followed by a literal that is no digit, so the greedy  *)
(* choice is the only one that can match and the scan needs no backtrack.  *)

NoMatch == [matched |-> FALSE]

\* \s* from position i: the first position at or after i that holds no whitespace
SkipSpace(s, i) ==
    CHOOSE j \in i..(Len(s) + 1) :
        /\ \A k \in i..(j - 1) : IsSpace(s[k])
        /\ (j = Len(s) + 1 \/ ~IsSpace(s[j]))

IsDigitAt(s, i) == i >= 1 /\ i <= Len(s) /\ s[i] \in Digits
IsCharAt(s, i, c) == i >= 1 /\ i <= Len(s) /\ s[i] = c

\* \d{1,2} at position i: how many digits it takes (0: no match)
OneOrTwoDigits(s, i) ==
    IF IsDigitAt(s, i) /\ IsDigitAt(s, i + 1) THEN 2
    ELSE IF IsDigitAt(s, i) THEN 1 ELSE 0

\* faulty variant of MatchMinSec: the pattern without its closing $
MatchMinSec_NoAnchor(s, i, g) ==
    IF /\ IsDigitAt(s, i) /\ IsDigitAt(s, i + 1) /\ IsCharAt(s, i + 2, "-")
       /\ IsDigitAt(s, i + 3) /\ IsDigitAt(s, i + 4)
    THEN [matched |-> TRUE, year |-> g.year, month |-> g.month, day |-> g.day,
          ampm |-> g.ampm, hh |-> g.hh,
          mm |-> SubSeq(s, i, i + 1), ss |-> SubSeq(s, i + 3, i + 4)]
    ELSE NoMatch

\* (\d{2})-(\d{2})$ at position i
MatchMinSec(s, i, g) ==
    IF /\ IsDigitAt(s, i) /\ IsDigitAt(s, i + 1) /\ IsCharAt(s, i + 2, "-")
       /\ IsDigitAt(s, i + 3) /\ IsDigitAt(s, i + 4) /\ Len(s) = i + 4
    THEN [matched |-> TRUE, year |-> g.year, month |-> g.month, day |-> g.day,
          ampm |-> g.ampm, hh |-> g.hh,
          mm |-> SubSeq(s, i, i + 1), ss |-> SubSeq(s, i + 3, i + 4)]
    ELSE NoMatch

\* (AM|PM)\s*(\d{1,2})- at position i
MatchAmPmHour(s, i, g) ==
    IF IsCharAt(s, i, KO_O) /\ (IsCharAt(s, i + 1, KO_JEON) \/ IsCharAt(s, i + 1, KO_HU))
    THEN LET h == SkipSpace(s, i + 2)
             n == OneOrTwoDigits(s, h)
         IN  IF n > 0 /\ IsCharAt(s, h + n, "-")
             THEN MatchMinSec(s, h + n + 1,
                              [year |-> g.year, month |-> g.month, day |-> g.day,
                               ampm |-> SubSeq(s, i, i + 1),
                               hh |-> SubSeq(s, h, h + n - 1)])
             ELSE NoMatch
    ELSE NoMatch

\* (\d{1,2})\.\s* at position i: the field and the position after it, or no match
MatchField(s, i) ==
    LET n == OneOrTwoDigits(s, i)
    IN  IF n > 0 /\ IsCharAt(s, i + n, ".")
        THEN [matched |-> TRUE, text |-> SubSeq(s, i, i + n - 1),
              next |-> SkipSpace(s, i + n + 1)]
        ELSE [matched |-> FALSE, text |-> <<>>, next |-> 0]

\* the whole pattern, anchored at both ends; the groups as digit strs
ReMatch(s) ==
    IF (\A i \in 1..4 : IsDigitAt(s, i)) /\ IsCharAt(s, 5, ".")
    THEN LET mo == MatchField(s, SkipSpace(s, 6))
         IN  IF mo.matched
             THEN LET da == MatchField(s, mo.next)
                  IN  IF da.matched
                      THEN MatchAmPmHour(s, da.next,
                                         [year |-> SubSeq(s, 1, 4),
                                          month |-> mo.text, day |-> da.text])
                      ELSE NoMatch
             ELSE NoMatch
    ELSE NoMatch

---------------------------------------------------------------------------
(* datetime(year, month, day, hour, minute, second): the constructor's     *)
(* range checks (it raises ValueError outside them)                        *)

IsLeap(y) == (y % 4 = 0) /\ ((y % 100 # 0) \/ (y % 400 = 0))

DaysInMonth(y, m) ==
    IF m = 2 THEN (IF IsLeap(y) THEN 29 ELSE 28)
    ELSE IF m \in {4, 6, 9, 11} THEN 30 ELSE 31

\* faulty variant of ValidDateTime: every month taken to have 31 days
ValidDateTime_AnyDay(y, mo, d, h, mi, s) ==
    /\ y >= 1 /\ y <= 9999
    /\ mo >= 1 /\ mo <= 12
    /\ d >= 1 /\ d <= 31
    /\ h >= 0 /\ h <= 23
    /\ mi >= 0 /\ mi <= 59
    /\ s >= 0 /\ s <= 59

ValidDateTime(y, mo, d, h, mi, s) ==
    /\ y >= 1 /\ y <= 9999
    /\ mo >= 1 /\ mo <= 12
    /\ d >= 1 /\ d <= DaysInMonth(y, mo)
    /\ h >= 0 /\ h <= 23
    /\ mi >= 0 /\ mi <= 59
    /\ s >= 0 /\ s <= 59

---------------------------------------------------------------------------
(* parse_user_and_timestamp_from_filename                                  *)

\* a raised exception, and a returned (name_part, ts) pair
Raised(e) == [ok |-> FALSE, err |-> e, user |-> <<>>, ts |-> <<>>]
Returned(name_part, ts) == [ok |-> TRUE, err |-> "", user |-> name_part, ts |-> ts]

\* faulty variant of Hour24: the morning marker never changes the hour
Hour24_NoMidnight(ampm, hh) ==
    IF ampm = AM THEN hh ELSE (IF hh = 12 THEN 12 ELSE hh + 12)

\* the Korean AM/PM handling: the 24-hour hour of (ampm, hh)
Hour24(ampm, hh) ==
    IF ampm = AM
    THEN (IF hh = 12 THEN 0 ELSE hh)
    ELSE (IF hh = 12 THEN 12 ELSE hh + 12)

\* the part of the parser after the extension check
ParseStem(base) ==
    LET parts == SplitUnderscore(RsplitCsvHead(base))
    IN  IF Len(parts) # 2 THEN Raised("ValueError: unpack")
        ELSE LET name_part == parts[1]
                 rest == parts[2]
                 m == ReMatch(strip(rest))
             IN  IF ~m.matched THEN Raised("ValueError: format")
                 ELSE LET year == ToInt(m.year)
                          month == ToInt(m.month)
                          day == ToInt(m.day)
                          hour == Hour24(m.ampm, ToInt(m.hh))
                          mm == ToInt(m.mm)
                          ss == ToInt(m.ss)
                      IN  IF ~ValidDateTime(year, month, day, hour, mm, ss)
                          THEN Raised("ValueError: datetime")
                          ELSE Returned(name_part, <<year, month, day, hour, mm, ss>>)

\* faulty variant of parse_user_and_timestamp_from_filename: no extension check
parse_NoExtensionCheck(p) == ParseStem(basename(p))

parse_user_and_timestamp_from_filename(p) ==
    LET base == basename(p)
    IN  IF ~endswith(lower(base), CSV_EXT) THEN Raised("ValueError: not csv")
        ELSE ParseStem(base)

---------------------------------------------------------------------------
(* File names as the export tool writes them:                              *)
(*   <user_id>_<YYYY>. <M>. <D>. <marker> <H>-<MM>-<SS>.csv                *)
(* A name is written from its fields, the whitespace put at the six places *)
(* where the pattern has or tolerates some, and the extension.             *)

RECURSIVE Dec(_)
\* the decimal digits of n, unpadded
Dec(n) ==
    IF n < 10 THEN <<DigitSeq[n + 1]>>
    ELSE Dec(n \div 10) \o <<DigitSeq[(n % 10) + 1]>>

RECURSIVE Pad(_, _)
\* the decimal digits of n, zero-padded to width w
Pad(n, w) == IF Len(Dec(n)) >= w THEN Dec(n) ELSE <<"0">> \o Pad(n, w - 1)

\* a run of k spaces
Spaces(k) == [i \in 1..k |-> " "]

\* the timestamp segment of a name; g is the whitespace at the six places:
\* before the year, after each of the three periods, after the marker, at the end
FormatStamp(f, g) ==
    g[1] \o Pad(f.y, 4) \o <<".">> \o g[2] \o Dec(f.mo) \o <<".">> \o g[3]
         \o Dec(f.d) \o <<".">> \o g[4] \o f.marker \o g[5]
         \o Dec(f.h) \o <<"-">> \o Pad(f.mi, 2) \o <<"-">> \o Pad(f.s, 2) \o g[6]

\* what each character of FormatStamp(f, g) is
FormatRoles(f, g) ==
    LET R(t, r) == [i \in 1..Len(t) |-> r]
    IN  R(g[1], "gap") \o R(Pad(f.y, 4), "digit") \o <<"punct">> \o R(g[2], "gap")
         \o R(Dec(f.mo), "digit") \o <<"punct">> \o R(g[3], "gap")
         \o R(Dec(f.d), "digit") \o <<"punct">> \o R(g[4], "gap")
         \o <<"marker", "marker">> \o R(g[5], "gap")
         \o R(Dec(f.h), "digit") \o <<"punct">> \o R(Pad(f.mi, 2), "digit")
         \o <<"punct">> \o R(Pad(f.s, 2), "digit") \o R(g[6], "gap")

FormatName(user, f, g, ext) == user \o <<"_">> \o FormatStamp(f, g) \o ext

\* the whitespace of the documented form: one space after each period and
\* after the marker, none around the segment
CanonicalGaps == <<<<>>, <<" ">>, <<" ">>, <<" ">>, <<" ">>, <<>>>>

\* the longest run of spaces tried at one place
MaxGap == 2
GapChoices == {Spaces(k) : k \in 0..MaxGap} \cup {<<"\t">>}

\* field values: in range, at the edges of the ranges, and just outside
Years == {0, 1900, 2000, 2024, 2025}
Months == {0, 2, 4, 12, 13}
Days == {0, 1, 29, 30, 31, 32}
Markers == {AM, PM}
Hours == {0, 1, 5, 11, 12, 13, 23}
Minutes == {5, 59, 60}
Seconds == {0, 59, 60}

Fields(y, mo, d, marker, h, mi, s) ==
    [y |-> y, mo |-> mo, d |-> d, marker |-> marker, h |-> h, mi |-> mi, s |-> s]

\* the two documented examples: "2025. 12. 4. PM 11-50-53", "2025. 12. 4. AM 9-48-33"
BaseFields == {Fields(2025, 12, 4, PM, 11, 50, 53), Fields(2025, 12, 4, AM, 9, 48, 33)}

Users == {<<"a">>, <<>>, <<"a", " ">>, <<"7">>, <<"a", ".", "c", "s", "v">>,
          <<"a", "_", "b">>}
Dirs == {<<>>, <<"d", "/">>, <<"e", "_", "1", ".", "c", "s", "v", "/">>}
Exts == {CSV_EXT, <<".", "C", "S", "V">>, <<".", "c", "s", "v", ".", "C", "S", "V">>,
         <<".", "c", "s", "v", "x", ".", "C", "s", "v">>,
         <<".", "t", "x", "t">>, <<>>, <<".", "c", "s", "v", "x">>}
EditChars == {"7", ".", "-", " ", "\t", "_", "/", ":", "x", KO_HU, "V"}

NoEdit == [op |-> "none", pos |-> 0, ch |-> ""]

Source(kind, dir, user, f, g, ext) ==
    [kind |-> kind, dir |-> dir, user |-> user, f |-> f, g |-> g, ext |-> ext,
     edit |-> NoEdit]

NoSource == Source("none", <<>>, <<>>, Fields(0, 0, 0, AM, 0, 0, 0), CanonicalGaps, <<>>)

NoResult == [ok |-> FALSE, err |-> "none", user |-> <<>>, ts |-> <<>>]

\* one-character edits of a str
InsertAt(t, i, c) == SubSeq(t, 1, i - 1) \o <<c>> \o SubSeq(t, i, Len(t))
DeleteAt(t, i) == SubSeq(t, 1, i - 1) \o SubSeq(t, i + 1, Len(t))
ReplaceAt(t, i, c) == [t EXCEPT ![i] = c]

---------------------------------------------------------------------------
(* The parser machine: a name is written, perhaps edited in one place, and *)
(* handed to parse_user_and_timestamp_from_filename.                       *)

ParserInit ==
    /\ path = <<>>
    /\ src = NoSource
    /\ result = NoResult
    /\ pc = "start"

\* a name in the documented form, the fields ranging over the grid
BuildName ==
    /\ pc = "start"
    /\ \E y \in Years, mo \in Months, d \in Days, marker \in Markers,
          h \in Hours, mi \in Minutes, s \in Seconds :
          LET f == Fields(y, mo, d, marker, h, mi, s)
          IN  /\ src' = Source("grid", <<>>, <<"a">>, f, CanonicalGaps, CSV_EXT)
              /\ path' = FormatName(<<"a">>, f, CanonicalGaps, CSV_EXT)
    /\ pc' = "built"
    /\ UNCHANGED <<result, lvars, nvars, avars, dvars, gvars>>

\* a name in the documented form under a directory, with some user id and extension
BuildNamed ==
    /\ pc = "start"
    /\ \E dir \in Dirs, user \in Users, f \in BaseFields, ext \in Exts :
          /\ src' = Source("named", dir, user, f, CanonicalGaps, ext)
          /\ path' = dir \o FormatName(user, f, CanonicalGaps, ext)
    /\ pc' = "built"
    /\ UNCHANGED <<result, lvars, nvars, avars, dvars, gvars>>

\* a name whose whitespace differs from the documented form
BuildSpaced ==
    /\ pc = "start"
    /\ \E f \in BaseFields, g \in [1..6 -> GapChoices] :
          /\ src' = Source("spaced", <<>>, <<"a">>, f, g, CSV_EXT)
          /\ path' = FormatName(<<"a">>, f, g, CSV_EXT)
    /\ pc' = "built"
    /\ UNCHANGED <<result, lvars, nvars, avars, dvars, gvars>>

Editable ==
    /\ src.kind = "named" /\ src.dir = <<>> /\ src.user = <<"a">> /\ src.ext = CSV_EXT

\* one character of a documented name is inserted, deleted or replaced
EditName ==
    /\ pc = "built"
    /\ Editable
    /\ \/ \E i \in 1..(Len(path) + 1), c \in EditChars :
             /\ path' = InsertAt(path, i, c)
             /\ src' = [src EXCEPT !.edit = [op |-> "insert", pos |-> i, ch |-> c]]
       \/ \E i \in 1..Len(path) :
             /\ path' = DeleteAt(path, i)
             /\ src' = [src EXCEPT !.edit = [op |-> "delete", pos |-> i, ch |-> path[i]]]
       \/ \E i \in 1..Len(path), c \in EditChars :
             /\ c # path[i]
             /\ path' = ReplaceAt(path, i, c)
             /\ src' = [src EXCEPT !.edit = [op |-> "replace", pos |-> i, ch |-> c]]
    /\ pc' = "edited"
    /\ UNCHANGED <<result, lvars, nvars, avars, dvars, gvars>>

Parse ==
    /\ pc \in {"built", "edited"}
    /\ result' = parse_user_and_timestamp_from_filename(path)
    /\ pc' = "parsed"
    /\ UNCHANGED <<path, src, lvars, nvars, avars, dvars, gvars>>

ParserNext == BuildName \/ BuildNamed \/ BuildSpaced \/ EditName \/ Parse

---------------------------------------------------------------------------
(* read_csv_with_encoding                                                  *)
(* pandas is outside the repository: how pd.read_csv answers an attempt is *)
(* an input.  A file maps each attempt to "decoded" (a table comes back),  *)
(* "UnicodeDecodeError", or another failure of read_csv ("ParserError",    *)
(* standing for EmptyDataError, ParserError, OSError, ...).                *)

\* faulty variant of ENCODINGS: the legacy encoding tried first
ENCODINGS_LegacyFirst == <<"cp949", "utf-8-sig", "utf-8">>

ENCODINGS == <<"utf-8-sig", "cp949", "utf-8">>
DEFAULT == "default"
Attempts == {ENCODINGS[i] : i \in 1..Len(ENCODINGS)} \cup {DEFAULT}
ReadOutcomes == {"decoded", "UnicodeDecodeError", "ParserError"}

NoRead == [a \in Attempts |-> "decoded"]
NoLoad == [enc |-> "", err |-> ""]

LoaderInit ==
    /\ lfile = NoRead
    /\ tried = <<>>
    /\ lstate = "idle"
    /\ lresult = NoLoad

\* the call: read_csv_with_encoding(path) on a file answering as f
LoaderCall(f) ==
    /\ lfile' = f
    /\ tried' = <<>>
    /\ lstate' = "trying"
    /\ lresult' = NoLoad

\* faulty variant of TryEncoding: every failure of an attempt is caught, not only
\* UnicodeDecodeError
TryEncoding_CatchAll ==
    /\ lstate = "trying"
    /\ Len(tried) < Len(ENCODINGS)
    /\ LET enc == ENCODINGS[Len(tried) + 1]
       IN  /\ tried' = Append(tried, enc)
           /\ IF lfile[enc] = "decoded"
              THEN lstate' = "returned" /\ lresult' = [enc |-> enc, err |-> ""]
              ELSE UNCHANGED <<lstate, lresult>>
    /\ UNCHANGED lfile

\* one pass of the for loop: pd.read_csv(path, encoding=enc) returns the table,
\* raises UnicodeDecodeError (caught: continue) or raises something else (not caught)
TryEncoding ==
    /\ lstate = "trying"
    /\ Len(tried) < Len(ENCODINGS)
    /\ LET enc == ENCODINGS[Len(tried) + 1]
       IN  /\ tried' = Append(tried, enc)
           /\ CASE lfile[enc] = "decoded" ->
                     lstate' = "returned" /\ lresult' = [enc |-> enc, err |-> ""]
                [] lfile[enc] = "UnicodeDecodeError" ->
                     UNCHANGED <<lstate, lresult>>
                [] OTHER ->
                     lstate' = "raised" /\ lresult' = [enc |-> enc, err |-> lfile[enc]]
    /\ UNCHANGED lfile

\* faulty variant of TryDefault: the last attempt's failure is swallowed
TryDefault_Swallow ==
    /\ lstate = "trying"
    /\ Len(tried) = Len(ENCODINGS)
    /\ tried' = Append(tried, DEFAULT)
    /\ lstate' = "returned"
    /\ lresult' = [enc |-> DEFAULT, err |-> ""]
    /\ UNCHANGED lfile

\* after the loop: return pd.read_csv(path), whatever it raises propagates
TryDefault ==
    /\ lstate = "trying"
    /\ Len(tried) = Len(ENCODINGS)
    /\ tried' = Append(tried, DEFAULT)
    /\ IF lfile[DEFAULT] = "decoded"
       THEN lstate' = "returned" /\ lresult' = [enc |-> DEFAULT, err |-> ""]
       ELSE lstate' = "raised" /\ lresult' = [enc |-> DEFAULT, err |-> lfile[DEFAULT]]
    /\ UNCHANGED lfile

\* the loader called on its own, on a file answering in any way
ReadFile ==
    /\ lstate = "idle"
    /\ apc = "idle"
    /\ \E f \in [Attempts -> ReadOutcomes] : LoaderCall(f)
    /\ UNCHANGED <<pvars, dvars, gvars, nvars, avars>>

ReadTry ==
    /\ apc = "idle"
    /\ TryEncoding
    /\ UNCHANGED <<pvars, dvars, gvars, nvars, avars>>

ReadLast ==
    /\ apc = "idle"
    /\ TryDefault
    /\ UNCHANGED <<pvars, dvars, gvars, nvars, avars>>

LoaderNext == ReadFile \/ ReadTry \/ ReadLast

---------------------------------------------------------------------------
(* Category and potential normalization (aggregate_folder, the two .map    *)
(* chains over the TMSSR and the Potential column)                         *)

S_eliciting == <<"e", "l", "i", "c", "i", "t", "i", "n", "g">>
S_responding == <<"r", "e", "s", "p", "o", "n", "d", "i", "n", "g">>
S_facilitating == <<"f", "a", "c", "i", "l", "i", "t", "a", "t", "i", "n", "g">>
S_faciliatating == <<"f", "a", "c", "i", "l", "i", "a", "t", "a", "t", "i", "n", "g">>
S_extending == <<"e", "x", "t", "e", "n", "d", "i", "n", "g">>
Eliciting == <<"E", "l", "i", "c", "i", "t", "i", "n", "g">>
Responding == <<"R", "e", "s", "p", "o", "n", "d", "i", "n", "g">>
Facilitating == <<"F", "a", "c", "i", "l", "i", "t", "a", "t", "i", "n", "g">>
Extending == <<"E", "x", "t", "e", "n", "d", "i", "n", "g">>

\* Python's None
None == <<"None">>

\* faulty variant of CATEGORY_CANONICAL_get: the table without its misspelling entry
CATEGORY_CANONICAL_NoTypo(x) ==
    CASE x = S_eliciting -> Eliciting
      [] x = S_responding -> Responding
      [] x = S_facilitating -> Facilitating
      [] x = S_extending -> Extending
      [] OTHER -> None

\* CATEGORY_CANONICAL.get(x, None)
CATEGORY_CANONICAL_get(x) ==
    CASE x = S_eliciting -> Eliciting
      [] x = S_responding -> Responding
      [] x = S_facilitating -> Facilitating
      [] x = S_faciliatating -> Facilitating
      [] x = S_extending -> Extending
      [] OTHER -> None

CATEGORIES == <<Eliciting, Responding, Facilitating, Extending>>

\* one cell of tm_vals: .str.strip().str.lower().map(CATEGORY_CANONICAL.get)
NormalizeCategory(raw) == CATEGORY_CANONICAL_get(lower(strip(raw)))

\* faulty variant of NormalizePotential: the cell is lower-cased and not trimmed
NormalizePotential_NoStrip(x) == lower(x)

\* one cell of pot_vals: .str.strip().str.lower()
NormalizePotential(raw) == lower(strip(raw))

S_low == <<"l", "o", "w">>
S_high == <<"h", "i", "g", "h">>

---------------------------------------------------------------------------
(* The normalizer machine: a cell is written as some spelling of a known   *)
(* word, perhaps edited in one place, and normalized.                      *)

UpperOf(c) ==
    IF \E i \in 1..26 : LowerSeq[i] = c
    THEN UpperSeq[CHOOSE i \in 1..26 : LowerSeq[i] = c] ELSE c

\* word with the letters at the positions ups in upper case
Cased(word, ups) == [i \in 1..Len(word) |-> IF i \in ups THEN UpperOf(word[i]) ELSE word[i]]

\* the most letters put in upper case, short of all of them
MaxUpper == 2
CellWords == {S_eliciting, S_responding, S_facilitating, S_faciliatating, S_extending}
CellEditChars == {"a", "x", " ", "-"}

NormInit ==
    /\ cell = <<>>
    /\ norm = None
    /\ npc = "start"

WriteCell ==
    /\ npc = "start"
    /\ apc = "idle"
    /\ \E w \in CellWords, lead \in GapChoices, trail \in GapChoices :
          \E ups \in {u \in SUBSET (1..Len(w)) : Cardinality(u) <= MaxUpper \/ u = 1..Len(w)} :
             cell' = lead \o Cased(w, ups) \o trail
    /\ npc' = "written"
    /\ UNCHANGED <<norm, pvars, dvars, gvars, lvars, avars>>

EditCell ==
    /\ npc = "written"
    /\ cell \in CellWords
    /\ \/ \E i \in 1..(Len(cell) + 1), c \in CellEditChars : cell' = InsertAt(cell, i, c)
       \/ \E i \in 1..Len(cell) : cell' = DeleteAt(cell, i)
       \/ \E i \in 1..Len(cell), c \in CellEditChars :
             c # cell[i] /\ cell' = ReplaceAt(cell, i, c)
    /\ npc' = "edited"
    /\ UNCHANGED <<norm, pvars, dvars, gvars, lvars, avars>>

Normalize ==
    /\ npc \in {"written", "edited"}
    /\ norm' = NormalizeCategory(cell)
    /\ npc' = "normalized"
    /\ UNCHANGED <<cell, pvars, dvars, gvars, lvars, avars>>

NormNext == WriteCell \/ EditCell \/ Normalize

---------------------------------------------------------------------------
(* Ordering: Python compares str by code point, sorted() and the pandas    *)
(* multi-column sort_values are stable                                     *)

\* the characters of the model in code point order
CodeOrder ==
    <<"\t", " ", "-", ".", "/">> \o DigitSeq \o <<":">> \o UpperSeq \o <<"_">>
        \o LowerSeq \o <<KO_O, KO_JEON, KO_HU>>
CodeOf == [c \in {CodeOrder[i] : i \in 1..Len(CodeOrder)} |->
              CHOOSE i \in 1..Len(CodeOrder) : CodeOrder[i] = c]
Code(c) == CodeOf[c]
Codes(t) == [i \in 1..Len(t) |-> Code(t[i])] \o <<>>

RECURSIVE LessFrom(_, _, _)
\* a < b, given that a and b agree before position k
LessFrom(a, b, k) ==
    IF k > Len(a) THEN k <= Len(b)
    ELSE IF k > Len(b) THEN FALSE
    ELSE IF a[k] # b[k] THEN a[k] < b[k]
    ELSE LessFrom(a, b, k + 1)

\* lexicographic order of integer sequences
IntSeqLess(a, b) == LessFrom(a, b, 1)

\* x put behind every element of the sorted list whose key is not greater
InsertKeyed(sorted, x) ==
    LET k == Cardinality({i \in 1..Len(sorted) : ~IntSeqLess(x.key, sorted[i].key)})
    IN  SubSeq(sorted, 1, k) \o <<x>> \o SubSeq(sorted, k + 1, Len(sorted))

RECURSIVE SortKeyed(_)
\* stable sort of a list of [key, val] by key
SortKeyed(xs) ==
    IF xs = <<>> THEN <<>>
    ELSE InsertKeyed(SortKeyed(SubSeq(xs, 1, Len(xs) - 1)), xs[Len(xs)])

Vals(xs) == [i \in 1..Len(xs) |-> xs[i].val]

\* sorted(list of str)
SortedStrs(ps) ==
    Vals(SortKeyed([i \in 1..Len(ps) |-> [key |-> Codes(ps[i]), val |-> ps[i]]] \o <<>>))

\* faulty variant of UserTsKey: the timestamp is left out of the sort key
UserTsKey_UserOnly(r) == Codes(r.user) \o <<0>>

\* faulty variant of UserTsKey: equal timestamps are ordered by file name, the
\* greater name first
UserTsKey_LastFileFirst(r) ==
    Codes(r.user) \o <<0>> \o r.timestamp \o [i \in 1..Len(r.file) |-> 0 - Code(r.file[i])]

\* the sort key of (user, timestamp) and of (user, timestamp, category): a str is
\* closed by 0, below every code, so that a prefix sorts first
UserTsKey(r) == Codes(r.user) \o <<0>> \o r.timestamp
UserTsCatKey(r) == UserTsKey(r) \o Codes(r.category)

---------------------------------------------------------------------------
(* Directories                                                             *)

DATA_DIR == <<"/", "d", "a", "t", "a", "_", "n", "e", "w">>

\* os.path.join(data_dir, f)
PathJoin(d, f) == d \o <<"/">> \o f

Row3(u, t, p) == <<u, t, p>>
H_user == <<"u", "s", "e", "r">>
H_TMSSR == <<"T", "M", "S", "S", "R">>
H_Tmssr_padded == <<" ", "T", "m", "s", "s", "r", " ">>
H_Potential == <<"P", "o", "t", "e", "n", "t", "i", "a", "l">>
H_POTENTIAL_padded == <<"P", "O", "T", "E", "N", "T", "I", "A", "L", " ">>
H_note == <<"n", "o", "t", "e">>
V_High == <<"H", "i", "g", "h">>
V_low == <<"l", "o", "w">>
V_LOW_padded == <<"L", "O", "W", " ">>
V_medium == <<"m", "e", "d", "i", "u", "m">>
V_nan == <<"n", "a", "n">>
V_other == <<"o", "t", "h", "e", "r">>

\* a coded transcript: speaker, TMSSR code, potential
TableCoded ==
    [columns |-> <<H_user, H_TMSSR, H_Potential>>,
     rows |-> << Row3(<<"a">>, Eliciting, V_High),
                 Row3(<<"a">>, <<" ">> \o S_eliciting \o <<" ">>, V_low),
                 Row3(<<"b">>, Cased(S_faciliatating, 1..13), V_LOW_padded),
                 Row3(<<"a">>, V_other, V_High),
                 Row3(<<"a">>, Responding, V_medium),
                 Row3(<<"b">>, V_nan, V_nan) >>]

\* the same kind of file with padded headers, a second column that reads as
\* "potential" behind the first, and one row
TablePadded ==
    [columns |-> <<H_user, H_Potential, H_Tmssr_padded, H_POTENTIAL_padded>>,
     rows |-> << <<(<<"b">>), V_low, Extending, V_High>> >>]

\* no Potential column
TableNoPotential ==
    [columns |-> <<H_user, H_TMSSR, H_note>>,
     rows |-> << Row3(<<"a">>, Eliciting, V_High) >>]

\* headers and no data row
TableNoRows == [columns |-> <<H_user, H_TMSSR, H_Potential>>, rows |-> <<>>]

ReadsAt(first) == [a \in Attempts |-> IF a = first THEN "decoded" ELSE "UnicodeDecodeError"]

File(read, table) == [read |-> read, table |-> table]

\* the usual file: UTF-8 with BOM, coded
StandardFile == File([a \in Attempts |-> "decoded"], TableCoded)

\* the unusual files: a legacy encoding with padded headers, no encoding that
\* decodes, a file read_csv cannot parse, and a table without a required column
OddFiles ==
    { File(ReadsAt("cp949"), TablePadded),
      File([a \in Attempts |-> "UnicodeDecodeError"], TableCoded),
      File([a \in Attempts |-> "ParserError"], TableNoRows),
      File([a \in Attempts |-> "decoded"], TableNoPotential) }

N_random == <<"r", "a", "n", "d", "o", "m", ".", "c", "s", "v">>
N_notes == <<"n", "o", "t", "e", "s", ".", "t", "x", "t">>
NoGaps == <<<<>>, <<>>, <<>>, <<>>, <<>>, <<>>>>

\* file names: three captures of user a (the latest one sorts first as a str), a
\* second name of the first capture, a capture of user b, a stray file, a name with
\* an upper-case extension, a name with an upper-case extension behind a lower-case
\* one, and a file that is no CSV
NamePool ==
    { FormatName(<<"a">>, Fields(2025, 12, 4, AM, 9, 48, 33), CanonicalGaps, CSV_EXT),
      FormatName(<<"a">>, Fields(2025, 12, 4, PM, 11, 50, 53), CanonicalGaps, CSV_EXT),
      FormatName(<<"a">>, Fields(2025, 12, 10, AM, 9, 48, 33), CanonicalGaps, CSV_EXT),
      FormatName(<<"a">>, Fields(2025, 12, 4, AM, 9, 48, 33), NoGaps, CSV_EXT),
      FormatName(<<"b">>, Fields(2025, 12, 4, PM, 11, 50, 53), CanonicalGaps, CSV_EXT),
      N_random,
      FormatName(<<"b">>, Fields(2025, 12, 4, PM, 11, 50, 53), CanonicalGaps,
                 <<".", "C", "S", "V">>),
      FormatName(<<"b">>, Fields(2025, 12, 10, AM, 9, 48, 33), CanonicalGaps,
                 <<".", "c", "s", "v", ".", "C", "S", "V">>),
      N_notes }

\* the most files in a directory, and the most of them that are unusual
MaxFiles == 3
MaxOdd == 1

Folders ==
    UNION { { d \in [names -> {StandardFile} \cup OddFiles] :
                Cardinality({n \in names : d[n] # StandardFile}) <= MaxOdd }
            : names \in {ns \in SUBSET NamePool : Cardinality(ns) <= MaxFiles} }

RECURSIVE Orderings(_)
\* the lists that hold every element of S once
Orderings(S) ==
    IF S = {} THEN {<<>>}
    ELSE UNION {{<<x>> \o l : l \in Orderings(S \ {x})} : x \in S}

\* os.listdir: the names of the directory in any order
Listings(d) == Orderings(DOMAIN d)

\* [x for x in l if keep(x)]
RECURSIVE CsvOnly(_)
CsvOnly(l) ==
    IF l = <<>> THEN <<>>
    ELSE (IF endswith(lower(Head(l)), CSV_EXT) THEN <<Head(l)>> ELSE <<>>) \o CsvOnly(Tail(l))

RECURSIVE CsvPaths(_, _)
\* [os.path.join(data_dir, f) for f in listing if f.lower().endswith(".csv")]
CsvPaths(dir, listing) ==
    IF listing = <<>> THEN <<>>
    ELSE (IF endswith(lower(Head(listing)), CSV_EXT)
          THEN <<PathJoin(dir, Head(listing))>> ELSE <<>>) \o CsvPaths(dir, Tail(listing))

---------------------------------------------------------------------------
(* aggregate_folder                                                        *)

NoCur == [user |-> <<>>, ts |-> <<>>]

AggInit ==
    /\ folder = <<>>
    /\ csv_files = <<>>
    /\ idx = 0
    /\ cur = NoCur
    /\ rows = <<>>
    /\ out = <<>>
    /\ apc = "idle"

\* the file behind the path in hand
Fpath == csv_files[idx]
FileAt(p) == folder[basename(p)]

\* faulty variant of AggList: the list of paths is left in the order of the listing
AggList_Unsorted ==
    /\ apc = "idle"
    /\ npc = "start"
    /\ gpc = "start"
    /\ \E d \in Folders :
          /\ folder' = d
          /\ \E l \in Listings(d) :
                csv_files' = CsvPaths(DATA_DIR, l)
    /\ idx' = 1
    /\ rows' = <<>>
    /\ apc' = "loop"
    /\ UNCHANGED <<cur, out, lvars, pvars, dvars, gvars, nvars>>

\* csv_files = sorted([os.path.join(data_dir, f) for f in os.listdir(data_dir)
\*                     if f.lower().endswith(".csv")])
AggList ==
    /\ apc = "idle"
    /\ npc = "start"
    /\ gpc = "start"
    /\ \E d \in Folders :
          /\ folder' = d
          /\ \E l \in Listings(d) :
                csv_files' = SortedStrs(CsvPaths(DATA_DIR, l))
    /\ idx' = 1
    /\ rows' = <<>>
    /\ apc' = "loop"
    /\ UNCHANGED <<cur, out, lvars, pvars, dvars, gvars, nvars>>

\* parse_user_and_timestamp_from_filename on the paths of the pool, evaluated once
FolderParse ==
    [p \in {PathJoin(DATA_DIR, n) : n \in NamePool} |-> parse_user_and_timestamp_from_filename(p)]

\* faulty variant of AggParse: the parser's exception is not caught
AggParse_NoCatch ==
    /\ apc = "loop"
    /\ idx <= Len(csv_files)
    /\ LET r == FolderParse[Fpath]
       IN  IF ~r.ok
           THEN /\ apc' = "raised"
                /\ UNCHANGED <<cur, idx, lvars>>
           ELSE /\ cur' = [user |-> r.user, ts |-> r.ts]
                /\ LoaderCall(FileAt(Fpath).read)
                /\ apc' = "load"
                /\ UNCHANGED idx
    /\ UNCHANGED <<folder, csv_files, rows, out, pvars, dvars, gvars, nvars>>

\* the head of the loop body: try: user, ts = parse(fpath); except Exception:
\* continue; then the call of read_csv_with_encoding(fpath)
AggParse ==
    /\ apc = "loop"
    /\ idx <= Len(csv_files)
    /\ LET r == FolderParse[Fpath]
       IN  IF ~r.ok
           THEN /\ idx' = idx + 1
                /\ UNCHANGED <<cur, apc, lvars>>
           ELSE /\ cur' = [user |-> r.user, ts |-> r.ts]
                /\ LoaderCall(FileAt(Fpath).read)
                /\ apc' = "load"
                /\ UNCHANGED idx
    /\ UNCHANGED <<folder, csv_files, rows, out, pvars, dvars, gvars, nvars>>

\* read_csv_with_encoding at work inside the loop
AggReadTry ==
    /\ apc = "load"
    /\ TryEncoding
    /\ UNCHANGED <<avars, pvars, dvars, gvars, nvars>>

AggReadLast ==
    /\ apc = "load"
    /\ TryDefault
    /\ UNCHANGED <<avars, pvars, dvars, gvars, nvars>>

\* read_csv_with_encoding raised: nothing in aggregate_folder catches it
AggReadFailed ==
    /\ apc = "load"
    /\ lstate = "raised"
    /\ apc' = "raised"
    /\ UNCHANGED <<folder, csv_files, idx, cur, rows, out, lvars, pvars, dvars, gvars, nvars>>

\* the column found by the header loop: the last column whose header, stripped and
\* lower-cased, is want; 0 stands for None
FindColumn(columns, want) ==
    LET hits == {i \in 1..Len(columns) : lower(strip(columns[i])) = want}
    IN  IF hits = {} THEN 0 ELSE CHOOSE i \in hits : \A j \in hits : i >= j

S_tmssr == <<"t", "m", "s", "s", "r">>
S_potential == <<"p", "o", "t", "e", "n", "t", "i", "a", "l">>

\* the number of data rows of category cat whose potential is pot
CountCells(table, tm_col, pot_col, cat, pot) ==
    Cardinality({i \in 1..Len(table.rows) :
                    /\ NormalizeCategory(table.rows[i][tm_col]) = cat
                    /\ NormalizePotential(table.rows[i][pot_col]) = pot})

\* faulty variant of FileRows: a category without a matching data row gets no row
FileRows_SkipEmpty(table, tm_col, pot_col, user, ts, file) ==
    LET all == [c \in 1..Len(CATEGORIES) |->
                   [user |-> user, timestamp |-> ts, category |-> CATEGORIES[c],
                    low |-> CountCells(table, tm_col, pot_col, CATEGORIES[c], S_low),
                    high |-> CountCells(table, tm_col, pot_col, CATEGORIES[c], S_high),
                    file |-> file]]
        Matched(r) == \E i \in 1..Len(table.rows) :
                         NormalizeCategory(table.rows[i][tm_col]) = r.category
    IN  SelectSeq(all, Matched)

\* the four rows appended for one file
FileRows(table, tm_col, pot_col, user, ts, file) ==
    [c \in 1..Len(CATEGORIES) |->
        [user |-> user, timestamp |-> ts, category |-> CATEGORIES[c],
         low |-> CountCells(table, tm_col, pot_col, CATEGORIES[c], S_low),
         high |-> CountCells(table, tm_col, pot_col, CATEGORIES[c], S_high),
         file |-> file]]

\* faulty variant of AggCount: a file without a required column gets four empty rows
AggCount_ZeroRows ==
    /\ apc = "load"
    /\ lstate = "returned"
    /\ LET df == FileAt(Fpath).table
           tm_col == FindColumn(df.columns, S_tmssr)
           pot_col == FindColumn(df.columns, S_potential)
       IN  IF tm_col = 0 \/ pot_col = 0
           THEN rows' = rows \o [c \in 1..Len(CATEGORIES) |->
                                    [user |-> cur.user, timestamp |-> cur.ts,
                                     category |-> CATEGORIES[c], low |-> 0, high |-> 0,
                                     file |-> basename(Fpath)]]
           ELSE rows' = rows \o FileRows(df, tm_col, pot_col, cur.user, cur.ts, basename(Fpath))
    /\ idx' = idx + 1
    /\ apc' = "loop"
    /\ UNCHANGED <<folder, csv_files, cur, out, lvars, pvars, dvars, gvars, nvars>>

\* the rest of the loop body, on the loaded frame
AggCount ==
    /\ apc = "load"
    /\ lstate = "returned"
    /\ LET df == FileAt(Fpath).table
           tm_col == FindColumn(df.columns, S_tmssr)
           pot_col == FindColumn(df.columns, S_potential)
       IN  IF tm_col = 0 \/ pot_col = 0
           THEN UNCHANGED rows
           ELSE rows' = rows \o FileRows(df, tm_col, pot_col, cur.user, cur.ts, basename(Fpath))
    /\ idx' = idx + 1
    /\ apc' = "loop"
    /\ UNCHANGED <<folder, csv_files, cur, out, lvars, pvars, dvars, gvars, nvars>>

\* df_all.sort_values(["user", "timestamp", "category"])
SortRows(rs) == Vals(SortKeyed([i \in 1..Len(rs) |-> [key |-> UserTsCatKey(rs[i]), val |-> rs[i]]]))

Triple(r) == [user |-> r.user, timestamp |-> r.timestamp, file |-> r.file]

\* df_all[["user", "timestamp", "file"]].drop_duplicates(): first occurrences, in order
RECURSIVE DropDuplicates(_)
DropDuplicates(ts) ==
    IF ts = <<>> THEN <<>>
    ELSE LET front == SubSeq(ts, 1, Len(ts) - 1)
             last == ts[Len(ts)]
         IN  IF \E i \in 1..Len(front) : front[i] = last
             THEN DropDuplicates(front)
             ELSE DropDuplicates(front) \o <<last>>

\* point_map: the distinct triples sorted by (user, timestamp)
PointMap(df_all) ==
    LET triples == DropDuplicates([i \in 1..Len(df_all) |-> Triple(df_all[i])])
    IN  Vals(SortKeyed([i \in 1..Len(triples) |-> [key |-> UserTsKey(triples[i]), val |-> triples[i]]]))

\* faulty variant of PointAt: cumcount over the whole point map, not by user
PointAt_Global(pm, i) == i

\* groupby("user").cumcount() + 1 at position i of the point map
PointAt(pm, i) == Cardinality({j \in 1..(i - 1) : pm[j].user = pm[i].user}) + 1

\* the left merge: every row gets the point of its triple
WithPoints(df_all) ==
    LET pm == PointMap(df_all)
    IN  [i \in 1..Len(df_all) |->
            LET r == df_all[i]
                k == CHOOSE j \in 1..Len(pm) : pm[j] = Triple(r)
            IN  [user |-> r.user, timestamp |-> r.timestamp, category |-> r.category,
                 low |-> r.low, high |-> r.high, file |-> r.file, point |-> PointAt(pm, k)]]

\* after the loop: the empty frame, or the sorted rows with their points
AggReturn ==
    /\ apc = "loop"
    /\ idx > Len(csv_files)
    /\ out' = IF rows = <<>> THEN <<>> ELSE WithPoints(SortRows(rows))
    /\ apc' = "done"
    /\ UNCHANGED <<folder, csv_files, idx, cur, rows, lvars, pvars, dvars, gvars, nvars>>

AggNext ==
    AggList \/ AggParse \/ AggReadTry \/ AggReadLast \/ AggReadFailed \/ AggCount \/ AggReturn

---------------------------------------------------------------------------
(* The dashboard script                                                    *)

\* what the path typed into the text input is: a directory, nothing, or a directory
\* whose entries the process may not list
DirKinds == {"dir", "missing", "unreadable"}

DashInit ==
    /\ dkind = "none"
    /\ ui = "start"

\* df.empty
Empty(df) == df = <<>>

\* if not os.path.isdir(data_dir): st.error(...); st.stop()
DashCheck ==
    /\ ui = "start"
    /\ apc = "idle"
    /\ gpc = "start"
    /\ \E k \in DirKinds :
          /\ dkind' = k
          /\ ui' = IF k = "missing" THEN "error" ELSE "checked"
    /\ UNCHANGED <<pvars, lvars, nvars, avars, gvars>>

\* df = aggregate_folder(data_dir): the listing of an existing directory
DashList ==
    /\ ui = "checked"
    /\ dkind = "dir"
    /\ AggList

\* os.listdir(data_dir) raises inside aggregate_folder
DashListFails ==
    /\ ui = "checked"
    /\ dkind = "unreadable"
    /\ apc = "idle"
    /\ apc' = "raised"
    /\ UNCHANGED <<folder, csv_files, idx, cur, rows, out, pvars, lvars, nvars, dvars, gvars>>

\* if df.empty: st.warning(...); st.stop(); else the selection widgets and charts
DashShow ==
    /\ ui = "checked"
    /\ apc = "done"
    /\ ui' = IF Empty(out) THEN "warning" ELSE "charts"
    /\ UNCHANGED <<dkind, pvars, lvars, nvars, avars, gvars>>

\* an exception left aggregate_folder: the script run ends with it
DashRaised ==
    /\ ui = "checked"
    /\ apc = "raised"
    /\ ui' = "exception"
    /\ UNCHANGED <<dkind, pvars, lvars, nvars, avars, gvars>>

DashNext ==
    \/ DashCheck \/ DashList \/ DashListFails
    \/ AggParse \/ AggReadTry \/ AggReadLast \/ AggReadFailed \/ AggCount \/ AggReturn
    \/ DashShow \/ DashRaised

---------------------------------------------------------------------------
(* The comparison page: its functions                                      *)

\* read_csv_with_encoding as a function of how the file answers each attempt:
\* "returned", or "raised" with the first outcome that is no UnicodeDecodeError, or
\* with that of the read without encoding
RECURSIVE ReadFrom(_, _)
ReadFrom(read, k) ==
    IF k > Len(ENCODINGS)
    THEN (IF read[DEFAULT] = "decoded" THEN "returned" ELSE "raised")
    ELSE IF read[ENCODINGS[k]] = "decoded" THEN "returned"
    ELSE IF read[ENCODINGS[k]] = "UnicodeDecodeError" THEN ReadFrom(read, k + 1)
    ELSE "raised"

read_csv_with_encoding(read) == ReadFrom(read, 1)

\* a dict: d.get(k, 0), and d[k] += n on a defaultdict(int)
EmptyDict == [k \in {} |-> 0]
Get(d, k) == IF k \in DOMAIN d THEN d[k] ELSE 0
Add(d, k, n) == [x \in DOMAIN d \cup {k} |-> IF x = k THEN Get(d, k) + n ELSE d[x]]

\* faulty variant of UserRows: the first skip_rows rows are counted as well
UserRows_AllRows(table, skip_rows, user) ==
    Cardinality({i \in 1..Len(table.rows) : strip(table.rows[i][1]) = user})

\* (df[user_col].astype(str).str.strip() == user).sum() on df.iloc[skip_rows:]
UserRows(table, skip_rows, user) ==
    Cardinality({i \in 1..Len(table.rows) : i > skip_rows /\ strip(table.rows[i][1]) = user})

\* the file names of the two directories of the page
PageNames ==
    { FormatName(<<"a">>, Fields(2025, 12, 4, AM, 9, 48, 33), CanonicalGaps, CSV_EXT),
      FormatName(<<"a">>, Fields(2025, 12, 10, AM, 9, 48, 33), CanonicalGaps, CSV_EXT),
      FormatName(<<"b">>, Fields(2025, 12, 4, PM, 11, 50, 53), CanonicalGaps, CSV_EXT),
      N_random }

EARLY_DIR ==
    <<"d", "a", "t", "a", "_", "c", "o", "m", "p", "a", "r", "i", "s", "o", "n", "/",
      "{early}">>
LATE_DIR ==
    <<"d", "a", "t", "a", "_", "c", "o", "m", "p", "a", "r", "i", "s", "o", "n", "/",
      "{late}">>

\* parse_user_and_timestamp_from_filename on the paths of the page, evaluated once
PageParse ==
    [p \in {PathJoin(dir, n) : dir \in {EARLY_DIR, LATE_DIR}, n \in PageNames} |->
        parse_user_and_timestamp_from_filename(p)]

\* the loop of count_user_utterances from position k of csv_files on: the counts, the
\* paths handed to the parser and to the loader on the way, and whether a load raised
RECURSIVE CountFrom(_, _, _, _, _, _, _)
CountFrom(dir, d, csv, k, skip_rows, user_counts, seen) ==
    IF k > Len(csv) THEN [raised |-> FALSE, counts |-> user_counts, seen |-> seen]
    ELSE LET r == PageParse[csv[k]]
             f == d[basename(csv[k])]
             parsed == [seen EXCEPT !.parsed = @ \cup {csv[k]}]
             loaded == [parsed EXCEPT !.loaded = @ \cup {csv[k]}]
         IN  IF ~r.ok THEN CountFrom(dir, d, csv, k + 1, skip_rows, user_counts, parsed)
             ELSE IF read_csv_with_encoding(f.read) = "raised"
             THEN [raised |-> TRUE, counts |-> user_counts, seen |-> parsed]
             ELSE IF Len(f.table.columns) > 0
             THEN CountFrom(dir, d, csv, k + 1, skip_rows,
                            Add(user_counts, r.user, UserRows(f.table, skip_rows, r.user)),
                            loaded)
             ELSE CountFrom(dir, d, csv, k + 1, skip_rows, user_counts, loaded)

count_user_utterances(dir, d, listing, skip_rows, seen) ==
    CountFrom(dir, d, CsvPaths(dir, listing), 1, skip_rows, EmptyDict, seen)

\* the loop of get_file_count_by_user: user -> set of base names
RECURSIVE FilesFrom(_, _, _)
FilesFrom(csv, k, user_files) ==
    IF k > Len(csv) THEN user_files
    ELSE LET r == PageParse[csv[k]]
         IN  IF ~r.ok THEN FilesFrom(csv, k + 1, user_files)
             ELSE FilesFrom(csv, k + 1,
                     [u \in DOMAIN user_files \cup {r.user} |->
                         IF u = r.user
                         THEN (IF u \in DOMAIN user_files THEN user_files[u] ELSE {})
                                 \cup {basename(csv[k])}
                         ELSE user_files[u]])

get_file_count_by_user(dir, listing) ==
    LET user_files == FilesFrom(CsvPaths(dir, listing), 1, [u \in {} |-> {}])
    IN  [u \in DOMAIN user_files |-> Cardinality(user_files[u])]

\* faulty variant of count_total_files: only the files whose name parses are counted
count_total_files_ParsedOnly(listing) ==
    Len(SelectSeq(CsvOnly(listing), LAMBDA n : PageParse[PathJoin(EARLY_DIR, n)].ok))

count_total_files(listing) == Len(CsvOnly(listing))

\* a set as a list, in some order
RECURSIVE SetToSeq(_)
SetToSeq(S) ==
    IF S = {} THEN <<>>
    ELSE LET x == CHOOSE y \in S : TRUE IN <<x>> \o SetToSeq(S \ {x})

\* faulty variant of AllUsers: only the users of the early counts are listed
AllUsers_EarlyOnly(early, late) == SortedStrs(SetToSeq(DOMAIN early))

\* sorted(set(list(early.keys()) + list(late.keys())))
AllUsers(early, late) == SortedStrs(SetToSeq(DOMAIN early \cup DOMAIN late))

\* a faulty variant of the rows: the deltas taken as early minus late
ComparisonTable_EarlyMinusLate(all_users, e_utts, l_utts, e_files, l_files) ==
    [i \in 1..Len(all_users) |->
        LET u == all_users[i]
            e_utt == Get(e_utts, u)
            l_utt == Get(l_utts, u)
            e_file == Get(e_files, u)
            l_file == Get(l_files, u)
        IN  [user |-> u, e_utt |-> e_utt, l_utt |-> l_utt, d_utt |-> e_utt - l_utt,
             e_file |-> e_file, l_file |-> l_file, d_file |-> e_file - l_file]]

\* a faulty variant of the rows: a delta that only shows growth, 0 for a decline
ComparisonTable_GrowthOnly(all_users, e_utts, l_utts, e_files, l_files) ==
    [i \in 1..Len(all_users) |->
        LET u == all_users[i]
            e_utt == Get(e_utts, u)
            l_utt == Get(l_utts, u)
            e_file == Get(e_files, u)
            l_file == Get(l_files, u)
        IN  [user |-> u, e_utt |-> e_utt, l_utt |-> l_utt,
             d_utt |-> IF l_utt > e_utt THEN l_utt - e_utt ELSE 0,
             e_file |-> e_file, l_file |-> l_file,
             d_file |-> IF l_file > e_file THEN l_file - e_file ELSE 0]]

\* the rows appended to comparison_table
ComparisonTable(all_users, e_utts, l_utts, e_files, l_files) ==
    [i \in 1..Len(all_users) |->
        LET u == all_users[i]
            e_utt == Get(e_utts, u)
            l_utt == Get(l_utts, u)
            e_file == Get(e_files, u)
            l_file == Get(l_files, u)
        IN  [user |-> u, e_utt |-> e_utt, l_utt |-> l_utt, d_utt |-> l_utt - e_utt,
             e_file |-> e_file, l_file |-> l_file, d_file |-> l_file - e_file]]

---------------------------------------------------------------------------
(* The comparison page: its script                                         *)

EARLY_SKIP == 8
LATE_SKIP == 6

\* a transcript of ten rows: behind the first eight, user a speaks twice (once with
\* a padded name); behind the first six, three times, and user b once
TableTalk ==
    [columns |-> <<H_user, H_TMSSR, H_Potential>>,
     rows |-> [i \in 1..10 |->
                  Row3(<<<<"a">>, <<"b">>, <<"a">>, <<"b">>, <<"a">>, <<"a">>,
                         <<"a">>, <<"b">>, <<"a", " ">>, <<"a">>>>[i],
                       Eliciting, V_High)]]

TalkFile == File([a \in Attempts |-> "decoded"], TableTalk)

\* the files of the two directories: a long and a short transcript, and a file that
\* no encoding decodes
PageFiles == {TalkFile, StandardFile, File([a \in Attempts |-> "UnicodeDecodeError"], TableCoded)}

\* the most files in a directory of the page
MaxPageFiles == 2

Dir(exists, files) == [exists |-> exists, files |-> files]
NoDir == Dir(FALSE, <<>>)

\* what is on disk at a configured path: nothing, or a directory of files
PageDirs ==
    {NoDir} \cup
    UNION { {Dir(TRUE, d) : d \in [names -> PageFiles]}
            : names \in {ns \in SUBSET PageNames : Cardinality(ns) <= MaxPageFiles} }

NoSeen == [parsed |-> {}, loaded |-> {}]

\* sum(d.values())
RECURSIVE SumOver(_, _)
SumOver(d, keys) ==
    IF keys = {} THEN 0
    ELSE LET k == CHOOSE x \in keys : TRUE IN d[k] + SumOver(d, keys \ {k})
SumValues(d) == SumOver(d, DOMAIN d)

\* a / b of two ints with b # 0 (a float, kept as the pair), the int 0, and a name
\* that was never assigned
Quotient(a, b) == [kind |-> "quotient", num |-> a, den |-> b]
Zero == [kind |-> "int", num |-> 0, den |-> 1]
Unset == [kind |-> "unset", num |-> 0, den |-> 1]

NoPage ==
    [early_utterances |-> EmptyDict, late_utterances |-> EmptyDict,
     early_files |-> EmptyDict, late_files |-> EmptyDict,
     early_total_files |-> 0, late_total_files |-> 0,
     all_users |-> <<>>, early_total |-> 0, late_total |-> 0,
     file_change |-> 0, utterance_change |-> 0,
     early_avg |-> Unset, late_avg |-> Unset,
     comparison_table |-> <<>>, error |-> "none"]

PageInit ==
    /\ dirs = [early |-> NoDir, late |-> NoDir]
    /\ page = NoPage
    /\ touched = NoSeen
    /\ gpc = "start"

\* a run of the script starts: what the two configured paths hold
PageOpen ==
    /\ gpc = "start"
    /\ apc = "idle"
    /\ ui = "start"
    /\ npc = "start"
    /\ \E e \in PageDirs, l \in PageDirs : dirs' = [early |-> e, late |-> l]
    /\ gpc' = "early_utterances"
    /\ UNCHANGED <<page, touched, pvars, lvars, nvars, avars, dvars>>

\* the directory a position of the script works on, and the position behind it
Which == [early_utterances |-> "early", late_utterances |-> "late",
          early_files |-> "early", late_files |-> "late",
          early_total_files |-> "early", late_total_files |-> "late"]
Behind == [early_utterances |-> "late_utterances", late_utterances |-> "early_files",
           early_files |-> "late_files", late_files |-> "early_total_files",
           early_total_files |-> "late_total_files", late_total_files |-> "all_users"]
DirPath(which) == IF which = "early" THEN EARLY_DIR ELSE LATE_DIR
SkipRows(which) == IF which = "early" THEN EARLY_SKIP ELSE LATE_SKIP

\* os.listdir on a path that holds nothing
PageListFails ==
    /\ gpc \in DOMAIN Which
    /\ ~dirs[Which[gpc]].exists
    /\ page' = [page EXCEPT !.error = "FileNotFoundError"]
    /\ gpc' = "raised"
    /\ UNCHANGED <<dirs, touched, pvars, lvars, nvars, avars, dvars>>

\* early_utterances = count_user_utterances(early_dir, skip_rows=8), and the same
\* for late_dir with skip_rows=6
PageUtterances ==
    /\ gpc \in {"early_utterances", "late_utterances"}
    /\ dirs[Which[gpc]].exists
    /\ \E l \in Listings(dirs[Which[gpc]].files) :
          LET res == count_user_utterances(DirPath(Which[gpc]), dirs[Which[gpc]].files, l,
                                           SkipRows(Which[gpc]), touched)
          IN  /\ touched' = res.seen
              /\ IF res.raised
                 THEN /\ page' = [page EXCEPT !.error = "read_csv"]
                      /\ gpc' = "raised"
                 ELSE /\ page' = [page EXCEPT ![gpc] = res.counts]
                      /\ gpc' = Behind[gpc]
    /\ UNCHANGED <<dirs, pvars, lvars, nvars, avars, dvars>>

\* early_files = get_file_count_by_user(early_dir), and the same for late_dir
PageFileCounts ==
    /\ gpc \in {"early_files", "late_files"}
    /\ dirs[Which[gpc]].exists
    /\ \E l \in Listings(dirs[Which[gpc]].files) :
          page' = [page EXCEPT ![gpc] = get_file_count_by_user(DirPath(Which[gpc]), l)]
    /\ gpc' = Behind[gpc]
    /\ UNCHANGED <<dirs, touched, pvars, lvars, nvars, avars, dvars>>

\* early_total_files = count_total_files(early_dir), and the same for late_dir
PageTotals ==
    /\ gpc \in {"early_total_files", "late_total_files"}
    /\ dirs[Which[gpc]].exists
    /\ \E l \in Listings(dirs[Which[gpc]].files) :
          page' = [page EXCEPT ![gpc] = count_total_files(l)]
    /\ gpc' = Behind[gpc]
    /\ UNCHANGED <<dirs, touched, pvars, lvars, nvars, avars, dvars>>

\* all_users, the totals of the two columns, the three summary metrics and the rows
\* of comparison_table
PageCompare ==
    /\ gpc = "all_users"
    /\ LET all_users == AllUsers(page.early_utterances, page.late_utterances)
           early_total == SumValues(page.early_utterances)
           late_total == SumValues(page.late_utterances)
           shown == page.early_total_files > 0
       IN  page' = [page EXCEPT
                       !.all_users = all_users,
                       !.early_total = early_total,
                       !.late_total = late_total,
                       !.file_change = page.late_total_files - page.early_total_files,
                       !.utterance_change = late_total - early_total,
                       !.early_avg = IF shown
                                     THEN Quotient(early_total, page.early_total_files)
                                     ELSE Unset,
                       !.late_avg = IF shown
                                    THEN (IF page.late_total_files > 0
                                          THEN Quotient(late_total, page.late_total_files)
                                          ELSE Zero)
                                    ELSE Unset,
                       !.comparison_table =
                           ComparisonTable(all_users, page.early_utterances,
                                           page.late_utterances, page.early_files,
                                           page.late_files)]
    /\ gpc' = "shown"
    /\ UNCHANGED <<dirs, touched, pvars, lvars, nvars, avars, dvars>>

PageNext ==
    PageOpen \/ PageListFails \/ PageUtterances \/ PageFileCounts \/ PageTotals \/ PageCompare

Init == ParserInit /\ LoaderInit /\ NormInit /\ AggInit /\ DashInit /\ PageInit

SpecParse == Init /\ [][ParserNext]_vars

SpecLoad == Init /\ [][LoaderNext]_vars

SpecNorm == Init /\ [][NormNext]_vars

SpecAgg == Init /\ [][AggNext]_vars

SpecDash == Init /\ [][DashNext]_vars

SpecPage == Init /\ [][PageNext]_vars

\* a directory is aggregated, or the comparison page counts the utterances of its
\* two directories (lines 122 and 123 of its script)
RunsNext ==
    \/ AggList \/ AggParse \/ AggReadTry \/ AggReadLast \/ AggReadFailed \/ AggCount
    \/ AggReturn
    \/ PageOpen \/ PageListFails \/ PageUtterances

SpecRuns == Init /\ [][RunsNext]_vars

\* a cell is normalized on its own, or a directory is aggregated
CategoryNext ==
    \/ WriteCell \/ EditCell \/ Normalize
    \/ AggList \/ AggParse \/ AggReadTry \/ AggReadLast \/ AggReadFailed \/ AggCount
    \/ AggReturn

SpecCategory == Init /\ [][CategoryNext]_vars

---------------------------------------------------------------------------
(* Reference notions the properties below are stated with.  They are       *)
(* written from the documented file-name format, not from the parser.      *)

Range(t) == {t[i] : i \in 1..Len(t)}

\* the name was written by the machine and not edited afterwards
Unedited == src.kind # "none" /\ src.edit.op = "none"

\* the name is in the documented form: single spaces, ".csv"
Documented == Unedited /\ src.g = CanonicalGaps /\ src.ext = CSV_EXT

RefMonthDays == <<31, 28, 31, 30, 31, 30, 31, 31, 30, 31, 30, 31>>
RefLeapDay(y, mo) ==
    IF mo = 2 /\ y % 4 = 0 /\ (y % 100 # 0 \/ y % 400 = 0) THEN 1 ELSE 0
RefDateExists(y, mo, d) ==
    /\ y \in 1..9999
    /\ mo \in 1..12
    /\ d \in 1..(RefMonthDays[mo] + RefLeapDay(y, mo))

\* the 24-hour hour of a 12-hour clock reading, hour12 in 1..12
RefHour24(marker, hour12) == (hour12 % 12) + (IF marker = PM THEN 12 ELSE 0)

\* (C1) Filename round-trip: a name written in the documented form from a user id
\* without underscore and a valid (year, month, day, marker, hour12 in 1..12, minute,
\* second) parses to exactly that user id and that timestamp, the hour in 24-hour form.
C1_RoundTrip ==
    (/\ pc = "parsed"
     /\ Documented
     /\ "_" \notin Range(src.user)
     /\ RefDateExists(src.f.y, src.f.mo, src.f.d)
     /\ src.f.h \in 1..12 /\ src.f.mi \in 0..59 /\ src.f.s \in 0..59)
    => /\ result.ok
       /\ result.user = src.user
       /\ result.ts = <<src.f.y, src.f.mo, src.f.d,
                        RefHour24(src.f.marker, src.f.h), src.f.mi, src.f.s>>

\* the documented example under a directory whose name holds "_" and ".csv", the
\* user id itself ending in ".csv"
C1_Witness ==
    /\ pc = "parsed"
    /\ Documented
    /\ src.user = <<"a", ".", "c", "s", "v">>
    /\ src.dir = <<"e", "_", "1", ".", "c", "s", "v", "/">>
    /\ src.f = Fields(2025, 12, 4, PM, 11, 50, 53)
    /\ result.ok
    /\ result.ts = <<2025, 12, 4, 23, 50, 53>>

\* (C2) The 12-hour to 24-hour conversion of every accepted name: morning marker
\* with hour 12 gives 0, morning marker with another hour gives that hour, afternoon
\* marker with hour 12 gives 12, afternoon marker with another hour gives hour + 12.
C2_HourConversion ==
    (pc = "parsed" /\ Unedited /\ result.ok)
    => result.ts[4] =
          (CASE src.f.marker = AM /\ src.f.h = 12 -> 0
             [] src.f.marker = AM /\ src.f.h # 12 -> src.f.h
             [] src.f.marker = PM /\ src.f.h = 12 -> 12
             [] src.f.marker = PM /\ src.f.h # 12 -> src.f.h + 12)

\* midnight: the morning marker with hour 12
C2_Witness ==
    /\ pc = "parsed" /\ Unedited /\ result.ok
    /\ src.f.marker = AM /\ src.f.h = 12
    /\ result.ts[4] = 0

---------------------------------------------------------------------------
(* The timestamp grammar, read off the documented form by cutting the      *)
(* segment at its periods and dashes.  GapOk(k) says whether a run of k    *)
(* whitespace characters is allowed where the form has a space.            *)

RefAllDigits(t, lo, hi) ==
    /\ Len(t) >= lo /\ Len(t) <= hi
    /\ \A i \in 1..Len(t) : t[i] \in Digits

\* the length of the whitespace run t starts with
RECURSIVE RefLeadingSpace(_)
RefLeadingSpace(t) ==
    IF t # <<>> /\ IsSpace(Head(t)) THEN 1 + RefLeadingSpace(Tail(t)) ELSE 0

RefDropLeading(t) == SubSeq(t, RefLeadingSpace(t) + 1, Len(t))

RECURSIVE RefTrim(_)
\* whitespace removed at both ends
RefTrim(t) ==
    IF t # <<>> /\ IsSpace(t[Len(t)]) THEN RefTrim(SubSeq(t, 1, Len(t) - 1))
    ELSE RefDropLeading(t)

\* a numeric field behind a period: whitespace, then one or two digits
RefGapField(t, GapOk(_)) ==
    /\ GapOk(RefLeadingSpace(t))
    /\ RefAllDigits(RefDropLeading(t), 1, 2)

RefStamp(t, GapOk(_)) ==
    LET dots == {i \in 1..Len(t) : t[i] = "."}
        dashes == {i \in 1..Len(t) : t[i] = "-"}
    IN  /\ Cardinality(dots) = 3
        /\ Cardinality(dashes) = 2
        /\ LET d1 == CHOOSE i \in dots : \A j \in dots : i <= j
               d3 == CHOOSE i \in dots : \A j \in dots : i >= j
               d2 == CHOOSE i \in dots : i # d1 /\ i # d3
               h1 == CHOOSE i \in dashes : \A j \in dashes : i <= j
               h2 == CHOOSE i \in dashes : \A j \in dashes : i >= j
               mid == SubSeq(t, d3 + 1, h1 - 1)
               marked == RefDropLeading(mid)
           IN  /\ d3 < h1
               /\ RefAllDigits(SubSeq(t, 1, d1 - 1), 4, 4)
               /\ RefGapField(SubSeq(t, d1 + 1, d2 - 1), GapOk)
               /\ RefGapField(SubSeq(t, d2 + 1, d3 - 1), GapOk)
               /\ GapOk(RefLeadingSpace(mid))
               /\ Len(marked) >= 3
               /\ SubSeq(marked, 1, 2) \in {AM, PM}
               /\ RefGapField(SubSeq(marked, 3, Len(marked)), GapOk)
               /\ RefAllDigits(SubSeq(t, h1 + 1, h2 - 1), 2, 2)
               /\ RefAllDigits(SubSeq(t, h2 + 1, Len(t)), 2, 2)

AtMostOneSpace(k) == k <= 1
AnySpace(k) == TRUE

\* the file name of the path: what follows the last "/"
RECURSIVE RefFileName(_)
RefFileName(p) ==
    IF p = <<>> \/ p[Len(p)] = "/" THEN <<>>
    ELSE RefFileName(SubSeq(p, 1, Len(p) - 1)) \o <<p[Len(p)]>>

RefIsCsv(name) ==
    /\ Len(name) >= 4
    /\ name[Len(name) - 3] = "."
    /\ name[Len(name) - 2] \in {"c", "C"}
    /\ name[Len(name) - 1] \in {"s", "S"}
    /\ name[Len(name)] \in {"v", "V"}

\* what follows the first "_" of a name
RECURSIVE RefAfterUnderscore(_)
RefAfterUnderscore(name) ==
    IF name = <<>> THEN <<>>
    ELSE IF Head(name) = "_" THEN Tail(name) ELSE RefAfterUnderscore(Tail(name))

\* the timestamp segment of a name with extension: between the first "_" and
\* the four characters of the extension
RefSegment(name) ==
    LET stem == SubSeq(name, 1, Len(name) - 4) IN RefAfterUnderscore(stem)

\* what precedes the last lower-case ".csv" of a name
RECURSIVE RefCsvStem(_)
RefCsvStem(name) ==
    IF Len(name) < 4 THEN name
    ELSE IF SubSeq(name, Len(name) - 3, Len(name)) = <<".", "c", "s", "v">>
         THEN SubSeq(name, 1, Len(name) - 4)
         ELSE LET r == RefCsvStem(SubSeq(name, 1, Len(name) - 1))
              IN  IF Len(r) = Len(name) - 1 THEN name ELSE r

\* (C3, as stated) The parser fails for every name that does not end in the .csv
\* extension, or holds no underscore, or whose timestamp segment is not of the form
\* 'YYYY. M. D. <marker> H-MM-SS' with at most the one space shown at each place.
C3_Original ==
    (/\ pc = "parsed"
     /\ LET name == RefFileName(path)
        IN  \/ ~RefIsCsv(name)
            \/ "_" \notin Range(name)
            \/ ~RefStamp(RefSegment(name), AtMostOneSpace))
    => ~result.ok

\* (C3, amended) The parser fails for every name that does not end in the .csv
\* extension (in any letter case), or holds no underscore, or whose segment between
\* the first underscore and the last lower-case ".csv", trimmed of surrounding
\* whitespace, is not of the form 'YYYY. M. D. <marker> H-MM-SS' with any run of
\* whitespace, also none, where the form shows a space.
C3_FailureCases ==
    (/\ pc = "parsed"
     /\ LET name == RefFileName(path)
        IN  \/ ~RefIsCsv(name)
            \/ "_" \notin Range(name)
            \/ ~RefStamp(RefTrim(RefAfterUnderscore(RefCsvStem(name))), AnySpace))
    => ~result.ok

\* a name whose segment lost its first period is refused
C3_Witness ==
    /\ pc = "parsed"
    /\ src.edit.op = "delete" /\ src.edit.ch = "." /\ src.edit.pos = 7
    /\ RefIsCsv(RefFileName(path))
    /\ "_" \in Range(RefFileName(path))
    /\ ~RefStamp(RefTrim(RefAfterUnderscore(RefCsvStem(RefFileName(path)))), AnySpace)
    /\ ~result.ok

---------------------------------------------------------------------------
(* One-character deviations of a documented name "a_<stamp>.csv"           *)

\* the edited place, counted within the timestamp segment (the segment starts
\* behind the user id "a" and the underscore)
EditAt == src.edit.pos - 2
StampLen == Len(FormatStamp(src.f, src.g))
RoleAt(j) == FormatRoles(src.f, src.g)[j]
CharAt(j) == FormatStamp(src.f, src.g)[j]

\* an inserted character lands where the parser tolerates whitespace: at either
\* end of the segment, behind a period, behind the marker, or next to the space there
InsertedAtGap ==
    \/ EditAt = 1
    \/ EditAt = StampLen + 1
    \/ CharAt(EditAt - 1) = "."
    \/ RoleAt(EditAt - 1) = "gap"
    \/ (RoleAt(EditAt - 1) = "marker" /\ RoleAt(EditAt) # "marker")

Symbolic(c) == c \notin Digits /\ ~IsSpace(c)

\* the edit is a deviation from the grammar that is no whitespace at a tolerated place
Deviation ==
    /\ pc = "parsed"
    /\ src.edit.op # "none"
    /\ \/ /\ src.edit.op = "replace"
          /\ EditAt \in 1..StampLen
          /\ \/ RoleAt(EditAt) = "punct"
             \/ RoleAt(EditAt) = "digit" /\ Symbolic(src.edit.ch)
             \/ RoleAt(EditAt) = "marker" /\ src.edit.ch \notin {KO_JEON, KO_HU}
             \/ RoleAt(EditAt) = "gap" /\ src.edit.ch \notin Digits /\ ~IsSpace(src.edit.ch)
       \/ /\ src.edit.op = "delete"
          /\ EditAt \in 1..StampLen
          /\ RoleAt(EditAt) \in {"punct", "marker"}
       \/ /\ src.edit.op = "insert"
          /\ EditAt \in 1..(StampLen + 1)
          /\ \/ Symbolic(src.edit.ch)
             \/ IsSpace(src.edit.ch) /\ ~InsertedAtGap

\* the whitespace of a name differs from the documented form in one of the ways
\* listed: several spaces behind a period, no space between the marker
\* and the hour, whitespace around the segment
ListedWhitespace ==
    /\ src.kind = "spaced"
    /\ \/ \E k \in 2..4 : Len(src.g[k]) >= 2
       \/ src.g[5] = <<>>
       \/ src.g[1] # <<>>
       \/ src.g[6] # <<>>

C5_ValidTimestamp ==
    /\ (pc = "parsed" /\ result.ok)
       => /\ RefDateExists(result.ts[1], result.ts[2], result.ts[3])
          /\ result.ts[4] \in 0..23 /\ result.ts[5] \in 0..59 /\ result.ts[6] \in 0..59
    /\ (/\ pc = "parsed" /\ Unedited
        /\ \/ ~RefDateExists(src.f.y, src.f.mo, src.f.d)
           \/ (src.f.marker = PM /\ src.f.h > 12)
           \/ src.f.mi > 59 \/ src.f.s > 59)
       => ~result.ok

\* 29 February of 1900, which was no leap year, is refused
C5_Witness ==
    /\ pc = "parsed" /\ Unedited
    /\ src.f.y = 1900 /\ src.f.mo = 2 /\ src.f.d = 29
    /\ src.f.h = 5 /\ src.f.mi = 59 /\ src.f.s = 59
    /\ ~result.ok

\* (C6) Every user id the parser returns is a non-empty string.
C6_UserNonEmpty ==
    (pc = "parsed" /\ result.ok) => result.user # <<>>

---------------------------------------------------------------------------
(* read_csv_with_encoding                                                  *)

RefOrder == <<"utf-8-sig", "cp949", "utf-8", "default">>

\* (C7) The encodings are attempted in the fixed order utf-8-sig, cp949, utf-8;
\* the table returned is that of the first attempt that decodes, and no attempt
\* is made after one that decoded.
C7_EncodingOrder ==
    /\ Len(tried) <= 4
    /\ \A i \in 1..Len(tried) : tried[i] = RefOrder[i]
    /\ \A i \in 1..(Len(tried) - 1) : lfile[tried[i]] # "decoded"
    /\ lstate = "returned"
       => /\ tried # <<>>
          /\ lresult.enc = tried[Len(tried)]
          /\ lfile[lresult.enc] = "decoded"
    /\ (tried # <<>> /\ lfile[tried[Len(tried)]] = "decoded") => lstate = "returned"

\* cp949 decodes after utf-8-sig failed; utf-8 would decode too and is never tried
C7_Witness ==
    /\ lstate = "returned"
    /\ tried = <<"utf-8-sig", "cp949">>
    /\ lresult.enc = "cp949"
    /\ lfile["utf-8"] = "decoded"

\* (C8) When the three listed encodings all fail to decode, exactly one more
\* attempt is made, with the default decode: its table is returned if it succeeds,
\* and its failure propagates to the caller otherwise.
C8_FinalAttempt ==
    (/\ \A e \in {"utf-8-sig", "cp949", "utf-8"} : lfile[e] = "UnicodeDecodeError"
     /\ lstate \in {"returned", "raised"})
    => /\ tried = <<"utf-8-sig", "cp949", "utf-8", "default">>
       /\ lfile["default"] = "decoded"
          => (lstate = "returned" /\ lresult.enc = "default")
       /\ lfile["default"] # "decoded"
          => (lstate = "raised" /\ lresult = [enc |-> "default", err |-> lfile["default"]])

\* no encoding decodes the file and the default decode fails as well
C8_Witness ==
    /\ \A e \in {"utf-8-sig", "cp949", "utf-8"} : lfile[e] = "UnicodeDecodeError"
    /\ lstate = "raised"
    /\ Len(tried) = 4
    /\ lresult = [enc |-> "default", err |-> "UnicodeDecodeError"]

---------------------------------------------------------------------------
(* Category normalization                                                  *)

RefSameLetter(x, k) == x = k \/ \E n \in 1..26 : UpperSeq[n] = x /\ LowerSeq[n] = k

\* c is word in some letter case with whitespace around it
RefVariant(c, word) ==
    \E i \in 0..Len(c) :
        /\ i + Len(word) <= Len(c)
        /\ \A k \in 1..Len(word) : RefSameLetter(c[i + k], word[k])
        /\ \A j \in 1..Len(c) : (j <= i \/ j > i + Len(word)) => IsSpace(c[j])

RefLabels == {Eliciting, Responding, Facilitating, Extending}

\* the label a raw cell stands for: a spelling of a label or of the misspelling
RefCategory(c) ==
    IF RefVariant(c, S_eliciting) THEN Eliciting
    ELSE IF RefVariant(c, S_responding) THEN Responding
    ELSE IF RefVariant(c, S_facilitating) \/ RefVariant(c, S_faciliatating) THEN Facilitating
    ELSE IF RefVariant(c, S_extending) THEN Extending
    ELSE None

\* the last column whose header is a spelling of word (0: none)
RefColumn(table, word) ==
    LET hits == {i \in 1..Len(table.columns) : RefVariant(table.columns[i], word)}
    IN  IF hits = {} THEN 0 ELSE CHOOSE i \in hits : \A j \in hits : i >= j

\* the data rows of a table that carry a label and a low or high potential
RefCountedRows(table) ==
    LET tm == RefColumn(table, S_tmssr)
        pot == RefColumn(table, S_potential)
    IN  {i \in 1..Len(table.rows) :
            /\ RefCategory(table.rows[i][tm]) \in RefLabels
            /\ RefVariant(table.rows[i][pot], S_low) \/ RefVariant(table.rows[i][pot], S_high)}

RECURSIVE RefSumCounts(_, _)
\* low + high summed over the rows of frame at the positions in S
RefSumCounts(frame, S) ==
    IF S = {} THEN 0
    ELSE LET i == CHOOSE x \in S : TRUE
         IN  frame[i].low + frame[i].high + RefSumCounts(frame, S \ {i})

\* the number of such rows of each table of the pool
RefCounted ==
    [t \in {f.table : f \in {StandardFile} \cup OddFiles} |-> Cardinality(RefCountedRows(t))]

\* every row a file has in the output counts rows that carry a label: over the four
\* categories the counts add up to the labelled low/high rows of the file
RefNoCatchAll ==
    apc = "done"
    => \A n \in DOMAIN folder :
          LET mine == {i \in 1..Len(out) : out[i].file = n}
          IN  mine # {} => RefSumCounts(out, mine) = RefCounted[folder[n].table]

\* (C9, as stated) Normalization returns the four canonical labels unchanged, maps
\* the misspelling in any letter case and with surrounding whitespace to
\* Facilitating, and returns no match for every other string.
C9_Original ==
    npc = "normalized"
    => /\ cell \in RefLabels => norm = cell
       /\ RefVariant(cell, S_faciliatating) => norm = Facilitating
       /\ (cell \notin RefLabels /\ ~RefVariant(cell, S_faciliatating)) => norm = None

\* (C9, amended) Normalization maps every spelling of a canonical label or of the
\* misspelling 'faciliatating' (any letter case, whitespace around it) to the
\* canonical label, a canonical label therefore to itself, and every other string to
\* no match; a row with no match is counted under none of the four categories.
C9_Normalization ==
    /\ npc = "normalized" => norm = RefCategory(cell)
    /\ (npc = "normalized" /\ cell \in RefLabels) => norm = cell
    /\ RefNoCatchAll

\* the misspelling in capitals behind a tab
C9_Witness ==
    /\ npc = "normalized"
    /\ cell = <<"\t">> \o Cased(S_faciliatating, 1..13) \o <<" ", " ">>
    /\ norm = Facilitating

---------------------------------------------------------------------------
(* aggregate_folder and file names that do not parse                       *)

\* the names of the pool that the parser accepts
RefParsing == {n \in NamePool : parse_user_and_timestamp_from_filename(PathJoin(DATA_DIR, n)).ok}
Parses(name) == name \in RefParsing

\* the table of the file has both required columns
RefTables == {f.table : f \in {StandardFile} \cup OddFiles}
RefWithColumns ==
    {t \in RefTables : RefColumn(t, S_tmssr) # 0 /\ RefColumn(t, S_potential) # 0}
RefHasColumns(table) == table \in RefWithColumns

\* (C10) A file whose name does not parse never aborts aggregate_folder: it is
\* skipped without an error, and the output holds the rows of the files whose names
\* parse (four for each that has the two columns) and no row of a file whose name
\* does not.
C10_MalformedSkipped ==
    /\ apc = "raised" => (Parses(basename(Fpath)) /\ lstate = "raised")
    /\ \A i \in 1..Len(rows) : Parses(rows[i].file)
    /\ apc = "done"
       => /\ \A i \in 1..Len(out) : Parses(out[i].file)
          /\ \A n \in DOMAIN folder :
                Cardinality({i \in 1..Len(out) : out[i].file = n})
                   = (IF Parses(n) /\ RefHasColumns(folder[n].table) THEN 4 ELSE 0)

\* the directory of one well-formed file and "random.csv"
C10_Witness ==
    /\ apc = "done"
    /\ DOMAIN folder =
          {N_random,
           FormatName(<<"a">>, Fields(2025, 12, 4, AM, 9, 48, 33), CanonicalGaps, CSV_EXT)}
    /\ Len(out) = 4
    /\ \A i \in 1..4 : out[i].file # N_random /\ out[i].user = <<"a">>

---------------------------------------------------------------------------
(* aggregate_folder and files that cannot be loaded                        *)

\* the outcome of read_csv_with_encoding on a file, by the order of its attempts
RefLoads(file) ==
    \E k \in 1..Len(RefOrder) :
        /\ file.read[RefOrder[k]] = "decoded"
        /\ \A j \in 1..(k - 1) : file.read[RefOrder[j]] = "UnicodeDecodeError"

\* (C11) aggregate_folder never raises because of a single file: a file with a
\* well-formed name that no encoding decodes, or whose load fails otherwise, is
\* skipped, and the files that load are aggregated and returned.
C11_FileSkipped ==
    /\ apc # "raised"
    /\ apc = "done"
       => \A n \in DOMAIN folder :
             (Parses(n) /\ RefLoads(folder[n]) /\ RefHasColumns(folder[n].table))
             => Cardinality({i \in 1..Len(out) : out[i].file = n}) = 4

---------------------------------------------------------------------------
(* aggregate_folder and files without the required columns                 *)

\* the files that have a row in a frame, and those of one user
RefFilesOf(frame) == {frame[i].file : i \in 1..Len(frame)}
RefUserFiles(frame, u) == {frame[i].file : i \in {j \in 1..Len(frame) : frame[j].user = u}}
RefUserPoints(frame, u) == {frame[i].point : i \in {j \in 1..Len(frame) : frame[j].user = u}}

\* (C12) A loaded file with no header that reads 'tmssr', or none that reads
\* 'potential', after trimming and lower-casing is skipped whole: no row is emitted
\* for it, it takes no point from the other files of its user, and the call goes on
\* with the next file without raising.
C12_MissingColumnSkipped ==
    /\ \A i \in 1..Len(rows) : RefHasColumns(folder[rows[i].file].table)
    /\ apc = "raised" => lstate # "returned"
    /\ (apc = "loop" /\ idx > 1)
       => \A k \in 1..(idx - 1) :
             LET n == basename(csv_files[k])
             IN  (Parses(n) /\ RefHasColumns(folder[n].table)) => n \in RefFilesOf(rows)
    /\ apc = "done"
       => /\ \A i \in 1..Len(out) : RefHasColumns(folder[out[i].file].table)
          /\ \A i \in 1..Len(out) :
                RefUserPoints(out, out[i].user)
                   = 1..Cardinality(RefUserFiles(out, out[i].user))

\* a file without Potential column between two usual files of the same user
C12_Witness ==
    /\ apc = "done"
    /\ Cardinality(DOMAIN folder) = 3
    /\ \A n \in DOMAIN folder : Parses(n)
    /\ \E n \in DOMAIN folder :
          /\ folder[n] = File([a \in Attempts |-> "decoded"], TableNoPotential)
          /\ basename(csv_files[2]) = n
          /\ n \notin RefFilesOf(out)
    /\ Len(out) = 8
    /\ RefUserPoints(out, <<"a">>) = {1, 2}

---------------------------------------------------------------------------
(* Four rows for every aggregated file                                     *)

\* frame holds, for file n, one row of each of the four categories and no other
RefFourRows(frame, n) ==
    /\ Cardinality({i \in 1..Len(frame) : frame[i].file = n}) = 4
    /\ \A c \in RefLabels :
          Cardinality({i \in 1..Len(frame) : frame[i].file = n /\ frame[i].category = c}) = 1

\* the data rows of a table that carry label c
RefRowsOfCategory(table, c) ==
    {i \in 1..Len(table.rows) : RefCategory(table.rows[i][RefColumn(table, S_tmssr)]) = c}

\* the data rows of label c whose potential cell reads word
RefRowsWithPotential(table, c, word) ==
    {i \in RefRowsOfCategory(table, c) :
        RefVariant(table.rows[i][RefColumn(table, S_potential)], word)}

\* for each table of the pool with both columns and each label: the rows of the label,
\* and those of them whose potential reads 'low' and 'high'
RefTally ==
    [t \in RefWithColumns |->
        [c \in RefLabels |->
            [all |-> Cardinality(RefRowsOfCategory(t, c)),
             low |-> Cardinality(RefRowsWithPotential(t, c, S_low)),
             high |-> Cardinality(RefRowsWithPotential(t, c, S_high))]]]

\* (C13) Every file that aggregate_folder processes (its name parses, it loads, it
\* has both columns) has exactly four rows in the output, one for each of Eliciting,
\* Responding, Facilitating and Extending, with low = high = 0 for a category no
\* data row of the file carries; no output row has another category.
C13_FourRows ==
    /\ \A i \in 1..Len(rows) : rows[i].category \in RefLabels /\ RefFourRows(rows, rows[i].file)
    /\ apc = "done"
       => /\ \A i \in 1..Len(out) : out[i].category \in RefLabels
          /\ \A n \in DOMAIN folder :
                (Parses(n) /\ RefHasColumns(folder[n].table))
                => /\ RefFourRows(out, n)
                   /\ \A i \in 1..Len(out) :
                         (out[i].file = n /\ RefTally[folder[n].table][out[i].category].all = 0)
                         => (out[i].low = 0 /\ out[i].high = 0)

\* a usual file: no data row carries Extending, and the file has its Extending row
C13_Witness ==
    /\ apc = "done"
    /\ Len(out) = 4
    /\ \E n \in DOMAIN folder :
          /\ folder[n] = StandardFile
          /\ RefTally[folder[n].table][Extending].all = 0
          /\ \E i \in 1..4 :
                out[i] = [user |-> <<"a">>, timestamp |-> <<2025, 12, 4, 9, 48, 33>>,
                          category |-> Extending, low |-> 0, high |-> 0, file |-> n,
                          point |-> 1]

---------------------------------------------------------------------------
(* The low and high counts                                                 *)

RefCountsRight(r) ==
    LET tally == RefTally[folder[r.file].table][r.category]
    IN  /\ r.low = tally.low
        /\ r.high = tally.high
        /\ r.low >= 0 /\ r.high >= 0
        /\ r.low + r.high <= tally.all

\* (C14) In every output row, low (high) is the number of data rows of the file
\* whose normalized category is the row's category and whose potential cell, trimmed
\* and lower-cased, is 'low' ('high'); any other potential adds to neither, so both
\* are non-negative and low + high is at most the number of rows of that category.
C14_Counts ==
    /\ \A i \in 1..Len(rows) : RefCountsRight(rows[i])
    /\ apc = "done" => \A i \in 1..Len(out) : RefCountsRight(out[i])

\* a usual file: its Facilitating row counts the padded 'LOW ' cell, its Responding
\* row counts nothing of the one Responding data row, whose potential is 'medium'
C14_Witness ==
    /\ apc = "done"
    /\ \E i, j \in 1..Len(out) :
          /\ out[i].file = out[j].file
          /\ folder[out[i].file] = StandardFile
          /\ out[i].category = Facilitating /\ out[i].low = 1 /\ out[i].high = 0
          /\ out[j].category = Responding /\ out[j].low = 0 /\ out[j].high = 0
          /\ RefTally[StandardFile.table][Responding].all = 1
    /\ \E k \in 1..Len(out) :
          out[k].category = Eliciting /\ out[k].low = 1 /\ out[k].high = 1

---------------------------------------------------------------------------
(* Points                                                                  *)

\* the user and the timestamp the parser reads from each accepted name of the pool
RefParsed == [n \in RefParsing |-> parse_user_and_timestamp_from_filename(PathJoin(DATA_DIR, n))]
RefUsersOf(frame) == {frame[i].user : i \in 1..Len(frame)}
RefFilePoints(frame, n) == {frame[i].point : i \in {j \in 1..Len(frame) : frame[j].file = n}}

\* the files of user u in the directory whose names parse, and those of them that
\* have both required columns
RefParsedFiles(u) == {n \in DOMAIN folder : Parses(n) /\ RefParsed[n].user = u}
RefAggregatedFiles(u) == {n \in RefParsedFiles(u) : RefHasColumns(folder[n].table)}

\* (C15, as stated) For each user of the output the point values are exactly
\* 1..N, N the number of successfully parsed files of that user.
C15_Original ==
    apc = "done"
    => \A u \in RefUsersOf(out) :
          RefUserPoints(out, u) = 1..Cardinality(RefParsedFiles(u))

\* (C15, amended) For each user of the output the point values are exactly 1..N
\* with no gap, N the number of that user's files whose names parse and that have
\* both required columns; each such file has one point and no two of them share one.
C15_DensePoints ==
    apc = "done"
    => \A u \in RefUsersOf(out) :
          /\ RefUserPoints(out, u) = 1..Cardinality(RefAggregatedFiles(u))
          /\ RefUserFiles(out, u) = RefAggregatedFiles(u)
          /\ \A n \in RefAggregatedFiles(u) : Cardinality(RefFilePoints(out, n)) = 1
          /\ \A m, n \in RefAggregatedFiles(u) :
                RefFilePoints(out, m) = RefFilePoints(out, n) => m = n

\* user a has three files whose names parse, one of them without Potential column,
\* and points 1 and 2; user b is not in the directory
C15_Witness ==
    /\ apc = "done"
    /\ Cardinality(RefParsedFiles(<<"a">>)) = 3
    /\ Cardinality(RefAggregatedFiles(<<"a">>)) = 2
    /\ RefUserPoints(out, <<"a">>) = {1, 2}

\* instant s lies before instant t (year, month, day, hour, minute, second)
RefBefore(s, t) ==
    \E k \in 1..6 : s[k] < t[k] /\ \A j \in 1..(k - 1) : s[j] = t[j]

\* (C16) Points follow the timestamp: for any user and any two aggregated files of
\* that user with timestamps T1 < T2 the point of the first is smaller than the point
\* of the second, whatever order the directory listing had; three files T1 < T2 < T3
\* have the points 1, 2, 3.
C16_PointsFollowTime ==
    apc = "done"
    => /\ \A i \in 1..Len(out) : out[i].timestamp = RefParsed[out[i].file].ts
       /\ \A i, j \in 1..Len(out) :
             (out[i].user = out[j].user /\ RefBefore(out[i].timestamp, out[j].timestamp))
             => out[i].point < out[j].point
       /\ \A u \in RefUsersOf(out) :
             \A l, m, n \in RefUserFiles(out, u) :
                (/\ Cardinality(RefUserFiles(out, u)) = 3
                 /\ RefBefore(RefParsed[l].ts, RefParsed[m].ts)
                 /\ RefBefore(RefParsed[m].ts, RefParsed[n].ts))
                => (/\ RefFilePoints(out, l) = {1}
                    /\ RefFilePoints(out, m) = {2}
                    /\ RefFilePoints(out, n) = {3})

\* three captures of user a: the latest is processed first, its name sorting first
\* as a str, and has point 3
C16_Witness ==
    /\ apc = "done"
    /\ Len(csv_files) = 3
    /\ \A k \in 1..3 : Parses(basename(csv_files[k]))
    /\ \A k \in 1..3 : RefParsed[basename(csv_files[k])].user = <<"a">>
    /\ RefBefore(RefParsed[basename(csv_files[2])].ts, RefParsed[basename(csv_files[3])].ts)
    /\ RefBefore(RefParsed[basename(csv_files[3])].ts, RefParsed[basename(csv_files[1])].ts)
    /\ RefFilePoints(out, basename(csv_files[1])) = {3}
    /\ RefFilePoints(out, basename(csv_files[2])) = {1}
    /\ RefFilePoints(out, basename(csv_files[3])) = {2}

---------------------------------------------------------------------------
(* The listing order                                                       *)

\* str a sorts before str b: code point order, a prefix first
RefStrBefore(a, b) ==
    \E k \in 1..Len(b) :
        /\ k <= Len(a) + 1
        /\ \A j \in 1..(k - 1) : a[j] = b[j]
        /\ k = Len(a) + 1 \/ Code(a[k]) < Code(b[k])

\* the pairs of names of the pool whose paths are in ascending order
RefNameOrder ==
    {mn \in NamePool \X NamePool :
        RefStrBefore(PathJoin(DATA_DIR, mn[1]), PathJoin(DATA_DIR, mn[2]))}

\* the paths of the CSV files of the directory, ascending: the only list there is
RefSortedListing ==
    /\ Range(csv_files) = {PathJoin(DATA_DIR, n) : n \in {m \in DOMAIN folder : RefIsCsv(m)}}
    /\ \A i, j \in 1..Len(csv_files) :
          i < j => <<basename(csv_files[i]), basename(csv_files[j])>> \in RefNameOrder

\* the files of the directory with rows in the output, and the order in which two of
\* one user get their points: by timestamp, then by file name
RefAggregated == {n \in DOMAIN folder : Parses(n) /\ RefHasColumns(folder[n].table)}
RefFileBefore(m, n) ==
    \/ RefBefore(RefParsed[m].ts, RefParsed[n].ts)
    \/ RefParsed[m].ts = RefParsed[n].ts /\ <<m, n>> \in RefNameOrder
RefPointOf(n) ==
    1 + Cardinality({m \in RefAggregated :
                        RefParsed[m].user = RefParsed[n].user /\ RefFileBefore(m, n)})

\* the rows of the output as the directory alone determines them
RefOutput ==
    {[user |-> RefParsed[n].user, timestamp |-> RefParsed[n].ts, category |-> c,
      low |-> RefTally[folder[n].table][c].low, high |-> RefTally[folder[n].table][c].high,
      file |-> n, point |-> RefPointOf(n)] : n \in RefAggregated, c \in RefLabels}

\* and their order: by user, timestamp, category, then file name
RefRowBefore(r, s) ==
    \/ RefStrBefore(r.user, s.user)
    \/ /\ r.user = s.user
       /\ \/ RefBefore(r.timestamp, s.timestamp)
          \/ /\ r.timestamp = s.timestamp
             /\ \/ RefStrBefore(r.category, s.category)
                \/ r.category = s.category /\ <<r.file, s.file>> \in RefNameOrder

\* some file of directory d whose name parses cannot be loaded
RefDirRaises(d) == \E n \in DOMAIN d : Parses(n) /\ ~RefLoads(d[n])

\* the rows behind the first skip of a table whose first cell, trimmed, is u
RefSpoken(table, skip, u) ==
    Cardinality({i \in (skip + 1)..Len(table.rows) : RefTrim(table.rows[i][1]) = u})

RECURSIVE RefSpokenSum(_, _, _, _)
RefSpokenSum(d, names, skip, u) ==
    IF names = {} THEN 0
    ELSE LET n == CHOOSE x \in names : TRUE
         IN  RefSpoken(d[n].table, skip, u) + RefSpokenSum(d, names \ {n}, skip, u)

\* the totals per user of a directory as its content alone determines them
RefUtterances(d, skip) ==
    [u \in {RefParsed[n].user : n \in {m \in DOMAIN d : Parses(m)}} |->
        RefSpokenSum(d, {n \in DOMAIN d : Parses(n) /\ RefParsed[n].user = u}, skip, u)]

\* (C17) For a fixed content of the directory the outcome of aggregate_folder is the
\* same for every order of the directory listing and for every run: the list of
\* paths, whether the call raises, and the returned rows with their counts, points
\* and order are determined by the content alone; so are the per-user totals of
\* count_user_utterances and whether it raises.
C17_ListingOrder ==
    /\ apc # "idle" => RefSortedListing
    /\ apc = "raised" => RefDirRaises(folder)
    /\ apc = "done"
       => /\ ~RefDirRaises(folder)
          /\ Range(out) = RefOutput
          /\ Len(out) = Cardinality(RefOutput)
          /\ \A i, j \in 1..Len(out) : i < j => RefRowBefore(out[i], out[j])
    /\ (gpc = "raised" /\ page.error = "read_csv")
       => \/ RefDirRaises(dirs.early.files)
          \/ (page.early_utterances = RefUtterances(dirs.early.files, EARLY_SKIP)
              /\ RefDirRaises(dirs.late.files))
    /\ gpc \in {"late_utterances", "early_files", "late_files", "early_total_files",
                "late_total_files", "all_users", "shown"}
       => /\ ~RefDirRaises(dirs.early.files)
          /\ page.early_utterances = RefUtterances(dirs.early.files, EARLY_SKIP)
    /\ gpc \in {"early_files", "late_files", "early_total_files", "late_total_files",
                "all_users", "shown"}
       => /\ ~RefDirRaises(dirs.late.files)
          /\ page.late_utterances = RefUtterances(dirs.late.files, LATE_SKIP)

\* a directory of three files, two of them with the same user and timestamp: six
\* listings, one output
C17_Witness ==
    /\ apc = "done"
    /\ Cardinality(DOMAIN folder) = 3
    /\ Len(out) = 12
    /\ \E m, n \in DOMAIN folder :
          /\ m # n
          /\ RefParsed[m].user = RefParsed[n].user
          /\ RefParsed[m].ts = RefParsed[n].ts
          /\ RefPointOf(m) = 1
          /\ RefPointOf(n) = 2
          /\ RefFilePoints(out, n) = {2}

---------------------------------------------------------------------------
(* The dashboard on a directory without data                               *)

\* the files of the directory whose names parse and that can be loaded with both
\* required columns
RefUsable == {n \in RefAggregated : RefLoads(folder[n])}

\* (C18) When no file of the directory both parses and has the two required columns
\* (the empty directory included), aggregate_folder returns an empty table and raises
\* nothing, and the dashboard then shows the no-data warning and stops without
\* drawing a chart.
C18_EmptyResult ==
    (dkind = "dir" /\ apc # "idle" /\ RefUsable = {})
    => /\ apc # "raised"
       /\ apc = "done" => Empty(out)
       /\ ui \in {"checked", "warning"}

\* C19: when a directory-level failure is reported (os.listdir raised on a path
\* that holds nothing), no file of either configured directory has been handed
\* to the parser or to the loader, and no count has been recorded by the page.
C19_HardStopFirst ==
    (gpc = "raised" /\ page.error = "FileNotFoundError")
    => /\ touched = NoSeen
       /\ page = [NoPage EXCEPT !.error = "FileNotFoundError"]

\* the value of a user in the counts of one directory, 0 for a user who is not there
RefValue(counts, u) == IF u \in DOMAIN counts THEN counts[u] ELSE 0

\* the users of the early or the late utterance counts
RefEitherUsers == DOMAIN page.early_utterances \cup DOMAIN page.late_utterances

\* C20: the comparison table has exactly one row for each user of the early or
\* the late counts; the row holds the user's early and late values, 0 where the
\* user is absent, and the deltas late minus early, for utterances and for files.
C20_ComparisonRows ==
    gpc = "shown"
    => LET t == page.comparison_table
       IN  /\ {t[i].user : i \in DOMAIN t} = RefEitherUsers
           /\ Len(t) = Cardinality(RefEitherUsers)
           /\ \A i \in DOMAIN t :
                 /\ t[i].e_utt = RefValue(page.early_utterances, t[i].user)
                 /\ t[i].l_utt = RefValue(page.late_utterances, t[i].user)
                 /\ t[i].d_utt = t[i].l_utt - t[i].e_utt
                 /\ t[i].e_file = RefValue(page.early_files, t[i].user)
                 /\ t[i].l_file = RefValue(page.late_files, t[i].user)
                 /\ t[i].d_file = t[i].l_file - t[i].e_file

\* a table of two users: one absent from the early counts who speaks in the late
\* ones, and one who speaks less in the late files than in the early ones
C20_Witness ==
    /\ gpc = "shown"
    /\ LET t == page.comparison_table
       IN  /\ Len(t) = 2
           /\ \E i \in DOMAIN t :
                 /\ t[i].user \notin DOMAIN page.early_utterances
                 /\ t[i].l_utt > 0
                 /\ t[i].l_file > 0
           /\ \E i \in DOMAIN t :
                 /\ t[i].e_utt > 0
                 /\ t[i].l_utt > 0
                 /\ t[i].d_utt < 0

---------------------------------------------------------------------------
(* The comparison with its inputs swapped                                  *)

\* the table the page would build with the late counts as its first input and the
\* early counts as its second
RefSwapped ==
    ComparisonTable(AllUsers(page.late_utterances, page.early_utterances),
                    page.late_utterances, page.early_utterances,
                    page.late_files, page.early_files)

\* the row of user u in table t
RefRowOf(t, u) == t[CHOOSE i \in DOMAIN t : t[i].user = u]

\* C21: swapping the two inputs of the comparison negates every delta: both tables
\* list the same users, and for each of them, also one present in only one input,
\* the utterance delta and the file delta of one table are minus those of the other.
C21_SwapNegates ==
    gpc = "shown"
    => LET t == page.comparison_table
           s == RefSwapped
       IN  /\ {t[i].user : i \in DOMAIN t} = {s[i].user : i \in DOMAIN s}
           /\ Len(t) = Len(s)
           /\ \A i \in DOMAIN t :
                 /\ RefRowOf(s, t[i].user).d_utt = 0 - t[i].d_utt
                 /\ RefRowOf(s, t[i].user).d_file = 0 - t[i].d_file
                 /\ RefRowOf(s, t[i].user).e_utt = t[i].l_utt
                 /\ RefRowOf(s, t[i].user).l_utt = t[i].e_utt

\* a table with a user of the late input only, whose delta is positive, and a user
\* of the early input only, whose delta is negative
C21_Witness ==
    /\ gpc = "shown"
    /\ LET t == page.comparison_table
       IN  /\ \E i \in DOMAIN t :
                 /\ t[i].user \notin DOMAIN page.early_utterances
                 /\ t[i].d_utt > 0
                 /\ t[i].d_file > 0
           /\ \E i \in DOMAIN t :
                 /\ t[i].user \notin DOMAIN page.late_utterances
                 /\ t[i].d_utt < 0
                 /\ t[i].d_file < 0

---------------------------------------------------------------------------
(* The rates of the summary                                                *)

\* the rate of a period: its total over its file count, 0 for no file
RefRate(total, files) == IF files = 0 THEN Zero ELSE Quotient(total, files)

\* C22: for each of the two periods the page computes the rate total utterances
\* over file count, and 0 for a period without files, whatever the file count of
\* the other period is.
C22_RatePerPeriod ==
    gpc = "shown"
    => /\ page.early_avg = RefRate(page.early_total, page.early_total_files)
       /\ page.late_avg = RefRate(page.late_total, page.late_total_files)

---------------------------------------------------------------------------
(* Files of one user with the same timestamp                               *)

\* the position of file n in the list of paths the loop runs over
RefTurnOf(n) == CHOOSE k \in 1..Len(csv_files) : basename(csv_files[k]) = n

\* files m and n are of the same user and parse to the same timestamp
RefTied(m, n) ==
    /\ m # n
    /\ RefParsed[m].user = RefParsed[n].user
    /\ RefParsed[m].ts = RefParsed[n].ts

\* C23: two aggregated files of one user whose names parse to the same timestamp
\* get two distinct points, the file processed first (the earlier in the sorted
\* list of paths) the smaller one; when no third file shares the timestamp, the two
\* points are consecutive.
C23_TieByInsertion ==
    apc = "done"
    => \A m, n \in RefAggregated :
          (RefTied(m, n) /\ RefTurnOf(m) < RefTurnOf(n))
          => /\ <<m, n>> \in RefNameOrder
             /\ \E p, q \in 1..Len(out) :
                   /\ RefFilePoints(out, m) = {p}
                   /\ RefFilePoints(out, n) = {q}
                   /\ p < q
                   /\ (\A l \in RefAggregated \ {m, n} : ~RefTied(l, m)) => q = p + 1

\* two captures of user a with the same timestamp and a later one: the points 1
\* and 2 in the order of the file names, and 3
C23_Witness ==
    /\ apc = "done"
    /\ \E l, m, n \in RefAggregated :
          /\ RefTied(m, n)
          /\ RefParsed[l].user = RefParsed[m].user
          /\ RefBefore(RefParsed[m].ts, RefParsed[l].ts)
          /\ RefTurnOf(m) < RefTurnOf(n)
          /\ RefFilePoints(out, m) = {1}
          /\ RefFilePoints(out, n) = {2}
          /\ RefFilePoints(out, l) = {3}

---------------------------------------------------------------------------
(* The utterance counts of a directory                                     *)

\* the files of user u in directory d: the names that parse to that user
RefFilesOfUser(d, u) == {n \in DOMAIN d : Parses(n) /\ RefParsed[n].user = u}

\* the counts of one period as the page holds them, with the directory and the
\* number of rows dropped in that period
RefPeriods ==
    { [at |-> {"late_utterances", "early_files", "late_files", "early_total_files",
               "late_total_files", "all_users", "shown"},
       d |-> dirs.early.files, skip |-> EARLY_SKIP, counts |-> page.early_utterances],
      [at |-> {"early_files", "late_files", "early_total_files", "late_total_files",
               "all_users", "shown"},
       d |-> dirs.late.files, skip |-> LATE_SKIP, counts |-> page.late_utterances] }

\* C24: what count_user_utterances(dir, skip_rows) returns has one entry for each
\* user of a file whose name parses; the entry is the sum, over the user's files, of
\* the rows behind the first skip_rows of the file whose first cell, trimmed, is the
\* user of the file name; a file of at most skip_rows rows adds 0.
C24_UtteranceCounts ==
    \A p \in RefPeriods :
        gpc \in p.at
        => /\ DOMAIN p.counts = {RefParsed[n].user : n \in {m \in DOMAIN p.d : Parses(m)}}
           /\ \A u \in DOMAIN p.counts :
                 /\ p.counts[u] = RefSpokenSum(p.d, RefFilesOfUser(p.d, u), p.skip, u)
                 /\ (\A n \in RefFilesOfUser(p.d, u) : Len(p.d[n].table.rows) <= p.skip)
                    => p.counts[u] = 0

\* user a has two long transcripts in the early directory, each counted behind its
\* first eight rows, and in the late directory one short transcript that holds a
\* row of a and adds 0
C24_Witness ==
    /\ gpc = "shown"
    /\ Cardinality(RefFilesOfUser(dirs.early.files, <<"a">>)) = 2
    /\ \A n \in RefFilesOfUser(dirs.early.files, <<"a">>) :
          RefSpoken(dirs.early.files[n].table, EARLY_SKIP, <<"a">>) = 2
    /\ page.early_utterances[<<"a">>] = 4
    /\ \E n \in RefFilesOfUser(dirs.late.files, <<"a">>) :
          /\ RefFilesOfUser(dirs.late.files, <<"a">>) = {n}
          /\ Len(dirs.late.files[n].table.rows) \in 1..LATE_SKIP
          /\ RefSpoken(dirs.late.files[n].table, 0, <<"a">>) > 0
    /\ page.late_utterances[<<"a">>] = 0

---------------------------------------------------------------------------
(* The attempts of the loader                                              *)

\* C25: read_csv_with_encoding goes on to a further attempt only behind attempts
\* that failed with UnicodeDecodeError; an attempt that fails in another way is
\* the last one made, its failure is what the call raises, and no later encoding
\* and no default attempt follows.  The copy of the comparison page ends the same way.
C25_OnlyDecodeErrorsRetry ==
    /\ \A k \in 1..(Len(tried) - 1) : lfile[tried[k]] = "UnicodeDecodeError"
    /\ \A k \in 1..Len(tried) :
          lfile[tried[k]] \notin {"decoded", "UnicodeDecodeError"}
          => /\ k = Len(tried)
             /\ lstate = "raised"
             /\ lresult = [enc |-> tried[k], err |-> lfile[tried[k]]]
    /\ lstate \in {"returned", "raised"} => read_csv_with_encoding(lfile) = lstate

\* the first attempt fails to decode, the second fails in another way: the call
\* has raised that failure behind two attempts, although the third encoding and
\* the default would have read the file
C25_Witness ==
    /\ lstate = "raised"
    /\ apc = "idle"
    /\ tried = <<"utf-8-sig", "cp949">>
    /\ lfile["utf-8-sig"] = "UnicodeDecodeError"
    /\ lfile["cp949"] = "ParserError"
    /\ lfile["utf-8"] = "decoded"
    /\ lfile[DEFAULT] = "decoded"
    /\ lresult = [enc |-> "cp949", err |-> "ParserError"]

---------------------------------------------------------------------------
(* Names with an upper-case extension                                      *)

\* the name ends in ".csv" written with at least one upper-case letter
RefUpperExt(name) ==
    /\ RefIsCsv(name)
    /\ SubSeq(name, Len(name) - 3, Len(name)) # <<".", "c", "s", "v">>

\* the name holds ".csv" in lower case somewhere
RefLowerCsvIn(name) ==
    \E i \in 1..(Len(name) - 3) : SubSeq(name, i, i + 3) = <<".", "c", "s", "v">>

\* file n of the directory is in the list of paths the loop runs over
RefSelected(n) == \E k \in 1..Len(csv_files) : csv_files[k] = PathJoin(DATA_DIR, n)

\* file n has a row among the rows collected so far or in the returned frame
RefContributes(n) ==
    \/ \E i \in 1..Len(rows) : rows[i].file = n
    \/ \E i \in 1..Len(out) : out[i].file = n

\* the parser's answer for file n of the directory
RefAnswer(n) == FolderParse[PathJoin(DATA_DIR, n)]

---------------------------------------------------------------------------
(* Files per user and files in all                                         *)

\* the file counts of one period as the page holds them, with its directory
RefFileCounts ==
    { [d |-> dirs.early.files, by_user |-> page.early_files,
       total |-> page.early_total_files, avg |-> page.early_avg],
      [d |-> dirs.late.files, by_user |-> page.late_files,
       total |-> page.late_total_files, avg |-> page.late_avg] }

\* the '.csv' names of directory d, and those of them that parse
RefCsvNames(d) == {n \in DOMAIN d : RefIsCsv(n)}
RefParsingNames(d) == {n \in RefCsvNames(d) : Parses(n)}

\* C27: in every directory the per-user file counts of get_file_count_by_user add
\* up to at most count_total_files, and to exactly that when, and only when, every
\* '.csv' name of the directory parses; the rate of a period is taken over
\* count_total_files, the files that were skipped included.
C27_FilesPerUserAtMostTotal ==
    gpc \in {"all_users", "shown"}
    => \A p \in RefFileCounts :
          /\ SumValues(p.by_user) <= p.total
          /\ SumValues(p.by_user) = Cardinality(RefParsingNames(p.d))
          /\ p.total = Cardinality(RefCsvNames(p.d))
          /\ (SumValues(p.by_user) = p.total) <=> (RefParsingNames(p.d) = RefCsvNames(p.d))
          /\ (gpc = "shown" /\ p.avg.kind = "quotient") => p.avg.den = Cardinality(RefCsvNames(p.d))

\* the early directory holds a transcript of user a and a stray file: one file by
\* user, two in all, and the rate of the period is taken over two; every name of
\* the late directory parses and the two sums agree
C27_Witness ==
    /\ gpc = "shown"
    /\ SumValues(page.early_files) = 1
    /\ page.early_total_files = 2
    /\ page.early_total > 0
    /\ page.early_avg = Quotient(page.early_total, 2)
    /\ Cardinality(RefCsvNames(dirs.early.files) \ RefParsingNames(dirs.early.files)) = 1
    /\ SumValues(page.late_files) = 2
    /\ page.late_total_files = 2

---------------------------------------------------------------------------
(* The totals of the summary and the rows of the table                     *)

\* the sum of column col over the rows of table t
RECURSIVE RefColumnSum(_, _)
RefColumnSum(t, col) ==
    IF t = <<>> THEN 0
    ELSE t[Len(t)][col] + RefColumnSum(SubSeq(t, 1, Len(t) - 1), col)

\* C28: the total utterance change of the summary, late total minus early total,
\* is the sum of the utterance deltas of the rows of the comparison table, and the
\* total of each period is the sum of that period's column over the listed users.
C28_TotalsMatchRows ==
    gpc = "shown"
    => /\ page.utterance_change = page.late_total - page.early_total
       /\ page.utterance_change = RefColumnSum(page.comparison_table, "d_utt")
       /\ page.early_total = RefColumnSum(page.comparison_table, "e_utt")
       /\ page.late_total = RefColumnSum(page.comparison_table, "l_utt")

\* a table of two users, one of them in the late counts only, with deltas of both
\* signs that add up to a change other than 0
C28_Witness ==
    /\ gpc = "shown"
    /\ Len(page.comparison_table) = 2
    /\ \E i, j \in DOMAIN page.comparison_table :
          /\ page.comparison_table[i].d_utt < 0
          /\ page.comparison_table[j].d_utt > 0
          /\ page.comparison_table[j].user \notin DOMAIN page.early_utterances
    /\ page.utterance_change # 0
    /\ page.early_total > 0
    /\ page.late_total > 0

====
